---- MODULE Spec2Model ----
(***************************************************************************)
(* MGB Dash 2026: bus transport (CanBus), structured log channel (CanLog), *)
(* heartbeat, body-controller hazard state machine and stepper wheel.      *)
(* Each component has its own specification over the shared variables.     *)
(***************************************************************************)
EXTENDS Integers, Sequences, FiniteSets, TLC

VARIABLES
    now,        \* real time since boot, in ms (millis() is now mod 2^32)
    canBus,     \* CanBus object: installed_, busOff_, error counters, lastRecoveryAttemptMs_
    twaiState,  \* state of the TWAI controller driver
    call,       \* the transport operation that ran last: arguments, result, controller use
    lastTx,     \* frames handed to twai_transmit by the operation that ran last
    recov,      \* recovery initiations: time of the last one, gap to the one before (-1: none)
    failedSends, \* number of twai_transmit calls that returned an error
    pc,         \* body controller: position in setup() / loop()
    loopNow,    \* body controller: "unsigned long now = millis()" of the current loop iteration
    canLog,     \* CanLog object: canBus_ (bound or not), role_, minLevel_
    heartbeat,  \* Heartbeat object: canBus_, roleName_, uptimeCounter_, errorFlags_, lastBroadcastMs_
    lastLog,    \* the CanLog::log call that ran last (NoLog: none in the last step)
    serial,     \* lines the last step wrote to the local fallback sink
    body,       \* body controller globals (hazard state machine, flags, cadence, watchdog)
    pins,       \* levels of the left / right turn inputs and the time each last went on
    sample,     \* the last readGPIO sample: inputs read, rise times then, flags produced
    stepper,    \* StepperWheel object (float members in units of 1/PosScale step)
    wheel,      \* the physical wheel: position, home marker, last operation and its motor steps
    eng,        \* body controller: hall counter, speed, gear, odometer, NVS copy, microsecond clock
    obs,        \* what an observer of the run has seen (pulse and frame times, samples, writes)
    gauge       \* a servo gauge node: watchdog, gauge value, LED ring, receive buffer

busVars == <<now, canBus, twaiState, call, lastTx, recov, failedSends>>
stepVars == <<stepper, wheel>>
engVars == <<eng, obs, gauge>>
nodeVars == <<pc, loopNow, canLog, heartbeat, lastLog, serial, body, pins, sample, stepVars, engVars>>

vars == <<busVars, nodeVars>>

\* ------------------------------------------------------------------------
\* Bounds of the model
\* ------------------------------------------------------------------------
MaxMs == 1010          \* horizon of the clock, in ms
MaxErr == 1            \* cap on the cumulative TX error count
MaxRxErr == 1          \* cap on the cumulative RX error count

TimeSteps == {250, 251}
MaxStep == 251
MaxNodeMs == 6000
MaxBodyMs == 200
MaxStepperMs == 1500
MaxEngMs == 600
MaxHbMs == 1900

\* ------------------------------------------------------------------------
\* Program constants
\* ------------------------------------------------------------------------
CAN_CUSTOM_ID_MIN == 1792      \* 0x700
CAN_CUSTOM_ID_MAX == 1855      \* 0x73F
RECOVERY_BACKOFF_MS == 500
CAN_ID_HEARTBEAT == 1792       \* 0x700
CAN_ID_BODY_STATE == 1808      \* 0x710
CAN_ID_BODY_SPEED == 1809      \* 0x711
CAN_ID_BODY_GEAR == 1810       \* 0x712
CAN_ID_BODY_ODOMETER == 1811   \* 0x713
CAN_ID_SELF_TEST == 1840       \* 0x730
CAN_ID_LOG == 1841             \* 0x731
CAN_ID_LOG_TEXT == 1842        \* 0x732
CAN_ID_LEAF_MOTOR_STATUS == 474  \* 0x1DA

\* millis(): the millisecond clock. It is an unsigned 32-bit value that wraps
\* after 49.7 days; the model's horizon MaxMs stays far below the wrap, and
\* so do the error counters (MaxErr), hence plain integer arithmetic.
millis == now

\* identifiers the harness offers to transmit/safeTransmit: both boundaries of
\* the reserved range, their neighbours, and vendor-native identifiers
IdSet == {CAN_ID_LEAF_MOTOR_STATUS, 1791, CAN_CUSTOM_ID_MIN,
          CAN_CUSTOM_ID_MAX, 1856}

ZeroPayload == <<0, 0, 0, 0, 0, 0, 0, 0>>

\* ------------------------------------------------------------------------
\* CanBus (transport)
\* ------------------------------------------------------------------------
CanBusNew ==
    [installed_ |-> FALSE, busOff_ |-> FALSE, txErrorCount_ |-> 0,
     rxErrorCount_ |-> 0, lastRecoveryAttemptMs_ |-> 0]

\* what twai_transmit can return in a driver state: ESP_OK (TRUE) only while
\* the driver is running; a full queue or a timeout (FALSE) at any time
TwaiTransmitResults(state) == IF state = "RUNNING" THEN {TRUE, FALSE} ELSE {FALSE}

\* transmit without the fail-fast check of the fault flag
transmit_ignoresBusOff(bus, id, data, drvOk) ==
    IF ~bus.installed_
    THEN [bus |-> bus, ret |-> FALSE, tx |-> <<>>]
    ELSE IF ~drvOk
         THEN [bus |-> [bus EXCEPT !.txErrorCount_ = @ + 1],
               ret |-> FALSE, tx |-> <<[id |-> id, data |-> data, ok |-> FALSE]>>]
         ELSE [bus |-> bus, ret |-> TRUE,
               tx |-> <<[id |-> id, data |-> data, ok |-> TRUE]>>]

\* CanBus::transmit. drvOk: twai_transmit returned ESP_OK.
\* Result: new transport state, return value, frames handed to the controller.
transmit(bus, id, data, drvOk) ==
    IF ~bus.installed_ \/ bus.busOff_
    THEN [bus |-> bus, ret |-> FALSE, tx |-> <<>>]
    ELSE IF ~drvOk
         THEN [bus |-> [bus EXCEPT !.txErrorCount_ = @ + 1],
               ret |-> FALSE, tx |-> <<[id |-> id, data |-> data, ok |-> FALSE]>>]
         ELSE [bus |-> bus, ret |-> TRUE,
               tx |-> <<[id |-> id, data |-> data, ok |-> TRUE]>>]

\* safeTransmit with the lower boundary excluded (<= for <)
safeTransmit_offByOne(bus, id, data, drvOk) ==
    IF id <= CAN_CUSTOM_ID_MIN \/ id > CAN_CUSTOM_ID_MAX
    THEN [bus |-> bus, ret |-> FALSE, tx |-> <<>>]
    ELSE transmit(bus, id, data, drvOk)

\* CanBus::safeTransmit
safeTransmit(bus, id, data, drvOk) ==
    IF id < CAN_CUSTOM_ID_MIN \/ id > CAN_CUSTOM_ID_MAX
    THEN [bus |-> bus, ret |-> FALSE, tx |-> <<>>]
    ELSE transmit(bus, id, data, drvOk)

\* the absence of a frame (twai_receive returned ESP_ERR_TIMEOUT)
NoFrame == [id |-> -1, data |-> <<>>]

\* CanBus::receive. drvFrame: what twai_receive delivers, NoFrame for none.
\* invoked: twai_receive was called.
receive(bus, drvFrame) ==
    IF ~bus.installed_ \/ bus.busOff_
    THEN [ret |-> FALSE, invoked |-> FALSE, frame |-> NoFrame]
    ELSE IF drvFrame = NoFrame
         THEN [ret |-> FALSE, invoked |-> TRUE, frame |-> NoFrame]
         ELSE [ret |-> TRUE, invoked |-> TRUE, frame |-> drvFrame]

\* checkErrors with the backoff compared by >= instead of >
checkErrors_backoffGe(bus, state, tec, rec, ms) ==
    IF ~bus.installed_
    THEN [bus |-> bus, initiated |-> FALSE]
    ELSE LET due == ms - bus.lastRecoveryAttemptMs_ >= RECOVERY_BACKOFF_MS
             b1 == IF state = "BUS_OFF"
                   THEN [bus EXCEPT !.busOff_ = TRUE,
                                    !.lastRecoveryAttemptMs_ = IF due THEN ms ELSE @]
                   ELSE IF state = "RUNNING" /\ bus.busOff_
                        THEN [bus EXCEPT !.busOff_ = FALSE]
                        ELSE bus
         IN [bus |-> [b1 EXCEPT !.txErrorCount_ = @ + tec,
                                !.rxErrorCount_ = @ + rec],
             initiated |-> (state = "BUS_OFF" /\ due)]

\* CanBus::checkErrors. state, tec, rec: the status twai_get_status_info
\* reports; ms: millis(). initiated: twai_initiate_recovery was called.
checkErrors(bus, state, tec, rec, ms) ==
    IF ~bus.installed_
    THEN [bus |-> bus, initiated |-> FALSE]
    ELSE LET due == ms - bus.lastRecoveryAttemptMs_ > RECOVERY_BACKOFF_MS
             b1 == IF state = "BUS_OFF"
                   THEN [bus EXCEPT !.busOff_ = TRUE,
                                    !.lastRecoveryAttemptMs_ = IF due THEN ms ELSE @]
                   ELSE IF state = "RUNNING" /\ bus.busOff_
                        THEN [bus EXCEPT !.busOff_ = FALSE]
                        ELSE bus
         IN [bus |-> [b1 EXCEPT !.txErrorCount_ = @ + tec,
                                !.rxErrorCount_ = @ + rec],
             initiated |-> (state = "BUS_OFF" /\ due)]

NoCall == [op |-> "none", id |-> 0, ret |-> FALSE, invoked |-> FALSE, seq |-> 0]
NoRecov == [lastAt |-> -1, gap |-> -1]

\* driver outcomes that keep the cumulative TX error count within MaxErr
DrvOutcomes == {ok \in TwaiTransmitResults(twaiState) :
                   ok \/ canBus.txErrorCount_ < MaxErr}

InitBus ==
    /\ now = 0
    /\ canBus = CanBusNew
    /\ twaiState = "UNINSTALLED"
    /\ call = NoCall
    /\ lastTx = <<>>
    /\ recov = NoRecov
    /\ failedSends = 0

\* CanBus::init: twai_driver_install and twai_start; ok: both returned ESP_OK
CanBusInit(ok) ==
    /\ twaiState = "UNINSTALLED"
    /\ call.op = "none"
    /\ IF ok
       THEN /\ canBus' = [canBus EXCEPT !.installed_ = TRUE, !.busOff_ = FALSE]
            /\ twaiState' = "RUNNING"
       ELSE UNCHANGED <<canBus, twaiState>>
    /\ call' = [op |-> "init", id |-> 0, ret |-> ok, invoked |-> TRUE, seq |-> 1 - call.seq]
    /\ lastTx' = <<>>
    /\ UNCHANGED <<now, recov, failedSends>>
    /\ UNCHANGED nodeVars

FailCount(tx) == Cardinality({i \in DOMAIN tx : ~tx[i].ok})

Transmit(id) ==
    \E drvOk \in DrvOutcomes :
        LET r == transmit(canBus, id, ZeroPayload, drvOk) IN
        /\ canBus' = r.bus
        /\ lastTx' = r.tx
        /\ call' = [op |-> "transmit", id |-> id, ret |-> r.ret,
                    invoked |-> (r.tx # <<>>), seq |-> 1 - call.seq]
        /\ failedSends' = failedSends + FailCount(r.tx)
        /\ UNCHANGED <<now, twaiState, recov>>
        /\ UNCHANGED nodeVars

SafeTransmit(id) ==
    \E drvOk \in DrvOutcomes :
        LET r == safeTransmit(canBus, id, ZeroPayload, drvOk) IN
        /\ canBus' = r.bus
        /\ lastTx' = r.tx
        /\ call' = [op |-> "safeTransmit", id |-> id, ret |-> r.ret,
                    invoked |-> (r.tx # <<>>), seq |-> 1 - call.seq]
        /\ failedSends' = failedSends + FailCount(r.tx)
        /\ UNCHANGED <<now, twaiState, recov>>
        /\ UNCHANGED nodeVars

Receive ==
    \E f \in ({NoFrame} \cup {[id |-> i, data |-> ZeroPayload] : i \in {CAN_ID_LEAF_MOTOR_STATUS, CAN_ID_BODY_STATE}}) :
        LET r == receive(canBus, f) IN
        /\ call' = [op |-> "receive", id |-> IF r.ret THEN r.frame.id ELSE 0,
                    ret |-> r.ret, invoked |-> r.invoked, seq |-> 1 - call.seq]
        /\ lastTx' = <<>>
        /\ UNCHANGED <<now, canBus, twaiState, recov, failedSends>>
        /\ UNCHANGED nodeVars

\* values of the controller's TX/RX error counters in the status
TecVals == {0, 1}

CheckErrors ==
    \E tec \in {t \in TecVals : canBus.txErrorCount_ + t <= MaxErr},
       rec \in {t \in TecVals : canBus.rxErrorCount_ + t <= MaxRxErr} :
        LET r == checkErrors(canBus, twaiState, tec, rec, millis) IN
        /\ canBus' = r.bus
        /\ twaiState' = IF r.initiated THEN "RECOVERING" ELSE twaiState
        /\ recov' = IF r.initiated
                    THEN [lastAt |-> now,
                          gap |-> IF recov.lastAt < 0 THEN -1 ELSE now - recov.lastAt]
                    ELSE recov
        /\ call' = [op |-> "checkErrors", id |-> 0, ret |-> r.initiated,
                    invoked |-> canBus.installed_, seq |-> 1 - call.seq]
        /\ lastTx' = <<>>
        /\ UNCHANGED <<now, failedSends>>
        /\ UNCHANGED nodeVars

\* ---- environment: the controller and the clock ----

\* The controller state that the next status query reports changes. The
\* driver is outside the program: the transport harness lets it report any
\* state at any time.
TwaiStatus(s) ==
    /\ twaiState # "UNINSTALLED"
    /\ twaiState # s
    /\ twaiState' = s
    /\ UNCHANGED <<now, canBus, call, lastTx, recov, failedSends>>
    /\ UNCHANGED nodeVars

\* The driver's own life cycle (ESP-IDF TWAI): running -> bus-off on
\* excessive errors; twai_initiate_recovery: bus-off -> recovering; a
\* completed recovery: recovering -> stopped; twai_start: stopped -> running.

\* the controller goes bus-off (excessive bus errors)
BusOffFault ==
    /\ twaiState = "RUNNING"
    /\ now + 3 * MaxStep <= MaxMs
    /\ twaiState' = "BUS_OFF"
    /\ UNCHANGED <<now, canBus, call, lastTx, recov, failedSends>>
    /\ UNCHANGED nodeVars

\* the controller completes a recovery that twai_initiate_recovery started:
\* the driver returns to the stopped state
RecoveryComplete ==
    /\ twaiState = "RECOVERING"
    /\ twaiState' = "STOPPED"
    /\ UNCHANGED <<now, canBus, call, lastTx, recov, failedSends>>
    /\ UNCHANGED nodeVars

Tick(d) ==
    /\ now + d <= MaxMs
    /\ now' = now + d
    /\ UNCHANGED <<canBus, twaiState, call, lastTx, recov, failedSends>>
    /\ UNCHANGED nodeVars

Next ==
    \/ \E ok \in BOOLEAN : CanBusInit(ok)
    \/ \E id \in IdSet : Transmit(id)
    \/ \E id \in IdSet : SafeTransmit(id)
    \/ Receive
    \/ CheckErrors
    \/ \E s \in {"STOPPED", "RUNNING", "BUS_OFF", "RECOVERING"} : TwaiStatus(s)
    \/ \E d \in TimeSteps : Tick(d)

\* the transport as a node drives it, on a controller with the driver's
\* life cycle
NextDrv ==
    \/ \E ok \in BOOLEAN : CanBusInit(ok)
    \/ \E id \in {CAN_ID_HEARTBEAT, CAN_ID_LEAF_MOTOR_STATUS} : SafeTransmit(id)
    \/ Receive
    \/ CheckErrors
    \/ BusOffFault
    \/ RecoveryComplete
    \/ \E d \in TimeSteps : Tick(d)

\* ========================================================================
\* Structured logging (CanLog) and heartbeat
\* ========================================================================

LOG_DEBUG == 0
LOG_INFO == 1
LOG_WARN == 2
LOG_CRITICAL == 4
LOG_ROLE_FUEL == 0
LOG_ROLE_BODY == 4
BOOT_START == 0
BOOT_COMPLETE == 1
BUS_RECOVERED == 18
SELF_TEST_START == 32
SELF_TEST_PASS == 33
CAN_SILENCE == 70
KEY_ON == 80
KEY_OFF == 81
LOG_TEXT_MAX_FRAMES == 7
LOG_TEXT_CHARS_PER_FRAME == 7
HEARTBEAT_INTERVAL_MS == 1000
HB_ROLE_LEN == 5
\* "BODY " as character codes
ROLE_BODY == <<66, 79, 68, 89, 32>>

\* byte k (0 = least significant) of a 32-bit value
ByteOf(x, k) == (x \div (256 ^ k)) % 256

packRoleLevel(role, level) == (((role * 16) + (level % 16)) % 256)

unpackRole(byte0) == byte0 \div 16

unpackLevel(byte0) == byte0 % 16

CanLogNew == [canBus_ |-> FALSE, role_ |-> LOG_ROLE_FUEL, minLevel_ |-> LOG_DEBUG]

\* CanLog::init; canBus_ is TRUE when it points at the node's CanBus
canLogInit(bound, role) == [canBus_ |-> bound, role_ |-> role, minLevel_ |-> LOG_DEBUG]

canAvailable_(cl, bus) == cl.canBus_ /\ ~bus.busOff_

\* number of LOG_TEXT frames of a text (a sequence of character codes; the
\* null pointer and the empty string are both <<>>); the count is a uint8_t
textFrameCount(text) ==
    IF text = <<>> THEN 0
    ELSE LET n == ((Len(text) + LOG_TEXT_CHARS_PER_FRAME - 1)
                     \div LOG_TEXT_CHARS_PER_FRAME) % 256
         IN IF n > LOG_TEXT_MAX_FRAMES THEN LOG_TEXT_MAX_FRAMES ELSE n

\* sendLogFrame_ with the context value in little-endian order
logFrame_littleEndian(cl, level, event, context, textFrames) ==
    [id |-> CAN_ID_LOG,
     data |-> <<packRoleLevel(cl.role_, level), event,
                ByteOf(context, 0), ByteOf(context, 1),
                ByteOf(context, 2), ByteOf(context, 3), 0, textFrames>>]

\* the LOG frame built by sendLogFrame_
logFrame(cl, level, event, context, textFrames) ==
    [id |-> CAN_ID_LOG,
     data |-> <<packRoleLevel(cl.role_, level), event,
                ByteOf(context, 3), ByteOf(context, 2),
                ByteOf(context, 1), ByteOf(context, 0), 0, textFrames>>]

\* the i-th (0-based) LOG_TEXT frame built by sendTextFrames_
textFrame(text, i) ==
    [id |-> CAN_ID_LOG_TEXT,
     data |-> <<i>> \o [k \in 1..LOG_TEXT_CHARS_PER_FRAME |->
                          IF i * LOG_TEXT_CHARS_PER_FRAME + k <= Len(text)
                          THEN text[i * LOG_TEXT_CHARS_PER_FRAME + k] ELSE 0]]

\* safeTransmit of each frame in turn; oks[k] is the controller's answer to
\* the k-th send attempt
RECURSIVE sendFrames(_, _, _)
sendFrames(bus, frames, oks) ==
    IF frames = <<>> THEN [bus |-> bus, tx |-> <<>>]
    ELSE LET r == safeTransmit(bus, Head(frames).id, Head(frames).data, Head(oks))
             rest == sendFrames(r.bus, Tail(frames),
                                IF r.tx = <<>> THEN oks ELSE Tail(oks))
         IN [bus |-> rest.bus, tx |-> r.tx \o rest.tx]

\* the frames one log call sends when the bus is available
logFrames(cl, level, event, context, text) ==
    LET n == textFrameCount(text) IN
    <<logFrame(cl, level, event, context, n)>>
        \o [i \in 1..n |-> textFrame(text, i - 1)]

\* the line serialFallback_ prints
serialLine(cl, level, event, context, text) ==
    [role |-> cl.role_, level |-> level, event |-> event,
     context |-> context, text |-> text]

\* CanLog::log that also drops calls at the minimum level (<= for <)
log_filtersAtMinimum(cl, bus, level, event, context, text, oks) ==
    IF level <= cl.minLevel_
    THEN [bus |-> bus, tx |-> <<>>, serial |-> <<>>]
    ELSE IF canAvailable_(cl, bus)
         THEN LET r == sendFrames(bus, logFrames(cl, level, event, context, text), oks)
              IN [bus |-> r.bus, tx |-> r.tx, serial |-> <<>>]
         ELSE [bus |-> bus, tx |-> <<>>,
               serial |-> <<serialLine(cl, level, event, context, text)>>]

\* CanLog::log: the transport after the call, the send attempts made, and
\* the lines written to the fallback sink
log(cl, bus, level, event, context, text, oks) ==
    IF level < cl.minLevel_
    THEN [bus |-> bus, tx |-> <<>>, serial |-> <<>>]
    ELSE IF canAvailable_(cl, bus)
         THEN LET r == sendFrames(bus, logFrames(cl, level, event, context, text), oks)
              IN [bus |-> r.bus, tx |-> r.tx, serial |-> <<>>]
         ELSE [bus |-> bus, tx |-> <<>>,
               serial |-> <<serialLine(cl, level, event, context, text)>>]

HeartbeatNew == [canBus_ |-> FALSE, roleName_ |-> <<0, 0, 0, 0, 0>>,
                 uptimeCounter_ |-> 0, errorFlags_ |-> 0, lastBroadcastMs_ |-> 0]

\* Heartbeat::init: strncpy copies at most five characters of the name and
\* fills what is left of the five with zero bytes
heartbeatInit(bound, roleName) ==
    [canBus_ |-> bound,
     roleName_ |-> [k \in 1..HB_ROLE_LEN |->
                      IF k <= Len(roleName) THEN roleName[k] ELSE 0],
     uptimeCounter_ |-> 0, errorFlags_ |-> 0, lastBroadcastMs_ |-> 0]

\* Heartbeat::update that keeps the interval open after a failed transmit
heartbeatUpdate_retryOnFail(hb, bus, ms, oks) ==
    IF ~hb.canBus_ \/ ms - hb.lastBroadcastMs_ < HEARTBEAT_INTERVAL_MS
    THEN [hb |-> hb, bus |-> bus, tx |-> <<>>]
    ELSE LET r == safeTransmit(bus, CAN_ID_HEARTBEAT,
                               hb.roleName_ \o <<hb.uptimeCounter_, hb.errorFlags_, 0>>,
                               Head(oks))
         IN [hb |-> [hb EXCEPT !.lastBroadcastMs_ = IF r.ret THEN ms ELSE @,
                               !.uptimeCounter_ = (@ + 1) % 256],
             bus |-> r.bus, tx |-> r.tx]
\* Heartbeat::update that counts only the heartbeats the controller accepted
heartbeatUpdate_countsSent(hb, bus, ms, oks) ==
    IF ~hb.canBus_ \/ ms - hb.lastBroadcastMs_ < HEARTBEAT_INTERVAL_MS
    THEN [hb |-> hb, bus |-> bus, tx |-> <<>>]
    ELSE LET r == safeTransmit(bus, CAN_ID_HEARTBEAT,
                               hb.roleName_ \o <<hb.uptimeCounter_, hb.errorFlags_, 0>>,
                               Head(oks))
         IN [hb |-> [hb EXCEPT !.lastBroadcastMs_ = ms,
                               !.uptimeCounter_ = IF r.ret THEN (@ + 1) % 256 ELSE @],
             bus |-> r.bus, tx |-> r.tx]
\* Heartbeat::update at time ms
heartbeatUpdate(hb, bus, ms, oks) ==
    IF ~hb.canBus_ \/ ms - hb.lastBroadcastMs_ < HEARTBEAT_INTERVAL_MS
    THEN [hb |-> hb, bus |-> bus, tx |-> <<>>]
    ELSE LET r == safeTransmit(bus, CAN_ID_HEARTBEAT,
                               hb.roleName_ \o <<hb.uptimeCounter_, hb.errorFlags_, 0>>,
                               Head(oks))
         IN [hb |-> [hb EXCEPT !.lastBroadcastMs_ = ms,
                               !.uptimeCounter_ = (@ + 1) % 256],
             bus |-> r.bus, tx |-> r.tx]

\* ========================================================================
\* Body controller (body_controller/main.cpp)
\* ========================================================================

BODY_FLAG_KEY_ON == 1
BODY_FLAG_BRAKE == 2
BODY_FLAG_REGEN == 4
BODY_FLAG_FAN == 8
BODY_FLAG_REVERSE == 16
BODY_FLAG_LEFT_TURN == 32
BODY_FLAG_RIGHT_TURN == 64
BODY_FLAG_HAZARD == 128
HAZARD_WINDOW_MS == 50
STATE_INTERVAL_MS == 100
GEAR_INTERVAL_MS == 500
ODO_INTERVAL_MS == 1000
SELF_TEST_TARGET_ALL == 255
CAN_SILENCE_TIMEOUT_MS == 5000
GEAR_1 == 1
GEAR_UNKNOWN == 255
RPM_BYTE_HI == 1
RPM_BYTE_LO == 2

\* bit (a power of two) is set in the flags byte
HasFlag(flags, bit) == (flags \div bit) % 2 = 1
FlagIf(cond, bit) == IF cond THEN bit ELSE 0

\* globals of main.cpp as the program is loaded
BodyNew ==
    [leftActive |-> FALSE, rightActive |-> FALSE, leftOnMs |-> 0, rightOnMs |-> 0,
     bodyFlags |-> 0, prevKeyOn |-> FALSE,
     lastStateMs |-> 0, lastGearMs |-> 0, lastOdoMs |-> 0,
     canMessageReceived |-> FALSE, canSilenceMode |-> FALSE, motorRpm |-> 0]

NoEvent == -1

\* readGPIO(now): in holds the (inverted) input levels read; the result is
\* the globals after the call and the key event it logs (NoEvent: none)
readGPIO_hazardKeepsTurns(b, in, nowMs) ==
    LET base == FlagIf(in.keyOn, BODY_FLAG_KEY_ON) + FlagIf(in.brake, BODY_FLAG_BRAKE)
                + FlagIf(in.regen, BODY_FLAG_REGEN) + FlagIf(in.fan, BODY_FLAG_FAN)
                + FlagIf(in.reverse, BODY_FLAG_REVERSE)
        lOn == IF in.left /\ ~b.leftActive THEN nowMs ELSE b.leftOnMs
        rOn == IF in.right /\ ~b.rightActive THEN nowMs ELSE b.rightOnMs
        delta == IF lOn > rOn THEN lOn - rOn ELSE rOn - lOn
        turn == IF in.left /\ in.right
                THEN IF delta <= HAZARD_WINDOW_MS
                     THEN BODY_FLAG_HAZARD + BODY_FLAG_LEFT_TURN + BODY_FLAG_RIGHT_TURN
                     ELSE BODY_FLAG_LEFT_TURN + BODY_FLAG_RIGHT_TURN
                ELSE FlagIf(in.left, BODY_FLAG_LEFT_TURN)
                     + FlagIf(in.right, BODY_FLAG_RIGHT_TURN)
    IN [body |-> [b EXCEPT !.bodyFlags = base + turn,
                           !.leftOnMs = lOn, !.rightOnMs = rOn,
                           !.leftActive = in.left, !.rightActive = in.right,
                           !.prevKeyOn = in.keyOn],
        event |-> IF in.keyOn /\ ~b.prevKeyOn THEN KEY_ON
                  ELSE IF ~in.keyOn /\ b.prevKeyOn THEN KEY_OFF
                  ELSE NoEvent]
readGPIO(b, in, nowMs) ==
    LET base == FlagIf(in.keyOn, BODY_FLAG_KEY_ON) + FlagIf(in.brake, BODY_FLAG_BRAKE)
                + FlagIf(in.regen, BODY_FLAG_REGEN) + FlagIf(in.fan, BODY_FLAG_FAN)
                + FlagIf(in.reverse, BODY_FLAG_REVERSE)
        lOn == IF in.left /\ ~b.leftActive THEN nowMs ELSE b.leftOnMs
        rOn == IF in.right /\ ~b.rightActive THEN nowMs ELSE b.rightOnMs
        delta == IF lOn > rOn THEN lOn - rOn ELSE rOn - lOn
        turn == IF in.left /\ in.right
                THEN IF delta <= HAZARD_WINDOW_MS
                     THEN BODY_FLAG_HAZARD
                     ELSE BODY_FLAG_LEFT_TURN + BODY_FLAG_RIGHT_TURN
                ELSE FlagIf(in.left, BODY_FLAG_LEFT_TURN)
                     + FlagIf(in.right, BODY_FLAG_RIGHT_TURN)
    IN [body |-> [b EXCEPT !.bodyFlags = base + turn,
                           !.leftOnMs = lOn, !.rightOnMs = rOn,
                           !.leftActive = in.left, !.rightActive = in.right,
                           !.prevKeyOn = in.keyOn],
        event |-> IF in.keyOn /\ ~b.prevKeyOn THEN KEY_ON
                  ELSE IF ~in.keyOn /\ b.prevKeyOn THEN KEY_OFF
                  ELSE NoEvent]

\* LeafCan::decodeMotorStatus, the rpm field: a signed 16-bit big-endian value
decodeMotorRpm(data) ==
    LET raw == data[RPM_BYTE_HI + 1] * 256 + data[RPM_BYTE_LO + 1]
    IN IF raw >= 32768 THEN raw - 65536 ELSE raw

\* the 10 Hz block of loop() once it is due: readGPIO and its key log, the
\* BODY_STATE broadcast and the BODY_SPEED broadcast (speedPayload: the bytes
\* of speedMph as computeSpeed left it)
stateTick(b, cl, bus, in, nowMs, speedPayload, oks) ==
    LET g == readGPIO([b EXCEPT !.lastStateMs = nowMs], in, nowMs)
        l == IF g.event = NoEvent
             THEN [bus |-> bus, tx |-> <<>>, serial |-> <<>>]
             ELSE log(cl, bus, LOG_INFO, g.event, 0, <<>>, oks)
        r == sendFrames(l.bus,
                        << [id |-> CAN_ID_BODY_STATE,
                            data |-> <<g.body.bodyFlags, 0, 0, 0, 0, 0, 0, 0>>],
                           [id |-> CAN_ID_BODY_SPEED, data |-> speedPayload] >>,
                        SubSeq(oks, Len(l.tx) + 1, Len(oks)))
    IN [body |-> g.body, bus |-> r.bus, tx |-> l.tx \o r.tx,
        serial |-> l.serial, event |-> g.event]

\* the 2 Hz block once it is due: the BODY_GEAR broadcast (gear: currentGear
\* as estimateGear left it)
broadcastGear_rawLeafId(b, bus, gear, nowMs, oks) ==
    LET r == transmit(bus, CAN_ID_LEAF_MOTOR_STATUS,
                      <<gear, FlagIf(HasFlag(b.bodyFlags, BODY_FLAG_REVERSE), 1),
                        0, 0, 0, 0, 0, 0>>, Head(oks))
    IN [body |-> [b EXCEPT !.lastGearMs = nowMs], bus |-> r.bus, tx |-> r.tx]
broadcastGear(b, bus, gear, nowMs, oks) ==
    LET r == safeTransmit(bus, CAN_ID_BODY_GEAR,
                          <<gear, FlagIf(HasFlag(b.bodyFlags, BODY_FLAG_REVERSE), 1),
                            0, 0, 0, 0, 0, 0>>, Head(oks))
    IN [body |-> [b EXCEPT !.lastGearMs = nowMs], bus |-> r.bus, tx |-> r.tx]

\* the 1 Hz block once it is due: the BODY_ODOMETER broadcast (odoU32: the
\* whole miles of the odometer), little-endian
broadcastOdometer(b, bus, odoU32, nowMs, oks) ==
    LET r == safeTransmit(bus, CAN_ID_BODY_ODOMETER,
                          <<ByteOf(odoU32, 0), ByteOf(odoU32, 1), ByteOf(odoU32, 2),
                            ByteOf(odoU32, 3), 0, 0, 0, 0>>, Head(oks))
    IN [body |-> [b EXCEPT !.lastOdoMs = nowMs], bus |-> r.bus, tx |-> r.tx]

\* ---- servo gauge node (FUEL, AMPS, TEMP) ----

CAN_ID_GPS_AMBIENT_LIGHT == 1830     \* 0x726
CAN_ID_LEAF_BATTERY_STATUS == 475    \* 0x1DB
CAN_ID_LEAF_SOC_PRECISE == 1371      \* 0x55B
CAN_ID_LEAF_BATTERY_TEMP == 1472     \* 0x5C0
LOG_ROLE_AMPS == 1
LOG_ROLE_TEMP == 2
GAUGE_STALE_MS == 2000
TURN_HOLDOFF_MS == 600
CURRENT_BYTE_HI == 2
CURRENT_BYTE_LO == 3
CURRENT_BITS == 11
SOC_BYTE == 4
SOC_BYTE_HI == 0
SOC_BYTE_LO == 1
TEMP_BYTE == 0
TEMP_OFFSET == -40

\* LeafCan::decodePreciseSOC, in hundredths of a percent (SOC_FACTOR 0.01)
decodePreciseSOC(data) == data[SOC_BYTE_HI + 1] * 256 + data[SOC_BYTE_LO + 1]

\* decodeBatteryStatus without the sign extension of the 11-bit field
decodeBatteryStatus_unsigned(data) ==
    LET currRaw == (data[CURRENT_BYTE_HI + 1] * 256 + data[CURRENT_BYTE_LO + 1])
                     \div 2 ^ (16 - CURRENT_BITS)
    IN [currentHalfA |-> currRaw, socPercent |-> data[SOC_BYTE + 1]]

\* LeafCan::decodeBatteryStatus: the current (upper 11 bits of bytes 2..3,
\* sign-extended) in half amperes (CURRENT_FACTOR 0.5), and the coarse SOC
decodeBatteryStatus(data) ==
    LET currRaw == (data[CURRENT_BYTE_HI + 1] * 256 + data[CURRENT_BYTE_LO + 1])
                     \div 2 ^ (16 - CURRENT_BITS)
    IN [currentHalfA |-> IF currRaw >= 2 ^ (CURRENT_BITS - 1)
                         THEN currRaw - 2 ^ CURRENT_BITS ELSE currRaw,
        socPercent |-> data[SOC_BYTE + 1]]

\* LeafCan::decodeBatteryTemp: (int8_t)data[0] + TEMP_OFFSET, returned as an
\* int8_t
decodeBatteryTemp(data) ==
    LET raw == data[TEMP_BYTE + 1]
        signed == IF raw >= 128 THEN raw - 256 ELSE raw
    IN ((signed + TEMP_OFFSET + 128) % 256) - 128

\* ServoGauge members after construction; angles in degrees, smoothedAngle_
\* in millionths of a degree, smoothingTau_ in ms. t0, from and dt are an
\* observer's notes: when the target was last stepped, the angle the needle
\* stood at, and the period update() is called at.
ServoGaugeNew ==
    [targetAngle_ |-> 0, currentAngle_ |-> 0, smoothingTau_ |-> 400,
     smoothedAngle_ |-> 0, lastUpdateMs_ |-> 0, initialized_ |-> FALSE,
     t0 |-> 0, from |-> 0, dt |-> 0]

\* the globals of the servo gauge main, the LedRing members it drives, the
\* servo target, and the receive buffer of loop(); gaugeValue is kept in
\* hundredths. selfTests, lastId, lastLen and events are an observer's
\* notes: the runs of runSelfTest made by loop(), the identifier and the
\* length of the last frame dispatched, the CAN_SILENCE and BUS_RECOVERED
\* events logged so far.
GaugeNew ==
    [role |-> LOG_ROLE_FUEL, phase |-> "rx",
     canMessageReceived |-> FALSE, canSilenceMode |-> FALSE,
     gaugeValue |-> 0, lastGaugeUpdateMs |-> 0,
     lastLeftMs |-> 0, lastRightMs |-> 0, lastHazardMs |-> 0,
     currentAnim |-> "ANIM_NONE", lastBodyFlags |-> 0,
     led |-> [bluePulse_ |-> FALSE, animating_ |-> FALSE, hazardMode_ |-> FALSE,
              turnLeft_ |-> FALSE, warningActive_ |-> FALSE, warn |-> <<0, 0, 0>>,
              ambientLevel_ |-> 128, shown |-> "off"],
     targetAngle_ |-> 0, servo |-> ServoGaugeNew,
     buf |-> ZeroPayload,
     selfTests |-> 0, lastId |-> -1, lastLen |-> 0, events |-> <<>>]

\* the body of the receive loop for one frame f of length f.len: receive
\* copies f.len bytes into the buffer, the rest of the buffer keeps what it
\* held. run tells whether runSelfTest is called.
gaugeDispatch_anyTarget(g, f, ms) ==
    LET data == [k \in 1..8 |-> IF k <= f.len THEN f.data[k] ELSE g.buf[k]]
        g1 == [g EXCEPT !.canMessageReceived = TRUE, !.buf = data,
                        !.lastId = f.id, !.lastLen = f.len]
        bs == decodeBatteryStatus(data)
        g2 == IF g.role = LOG_ROLE_FUEL /\ f.id = CAN_ID_LEAF_SOC_PRECISE
              THEN [g1 EXCEPT !.gaugeValue = decodePreciseSOC(data),
                              !.lastGaugeUpdateMs = ms]
              ELSE IF g.role = LOG_ROLE_FUEL /\ f.id = CAN_ID_LEAF_BATTERY_STATUS
                      /\ ms - g.lastGaugeUpdateMs > 1000
              THEN [g1 EXCEPT !.gaugeValue = 100 * bs.socPercent,
                              !.lastGaugeUpdateMs = ms]
              ELSE IF g.role = LOG_ROLE_AMPS /\ f.id = CAN_ID_LEAF_BATTERY_STATUS
              THEN [g1 EXCEPT !.gaugeValue = 50 * bs.currentHalfA,
                              !.lastGaugeUpdateMs = ms]
              ELSE IF g.role = LOG_ROLE_TEMP /\ f.id = CAN_ID_LEAF_BATTERY_TEMP
              THEN [g1 EXCEPT !.gaugeValue = 100 * decodeBatteryTemp(data),
                              !.lastGaugeUpdateMs = ms]
              ELSE g1
        g3 == IF f.id = CAN_ID_BODY_STATE
              THEN [g2 EXCEPT !.lastBodyFlags = data[1]] ELSE g2
        g4 == IF f.id = CAN_ID_GPS_AMBIENT_LIGHT
              THEN [g3 EXCEPT !.led.ambientLevel_ =
                      CASE data[1] = 0 -> 30 [] data[1] = 1 -> 100
                        [] data[1] = 2 -> 180 [] data[1] = 3 -> 255
                        [] OTHER -> 128]
              ELSE g3
    IN [g |-> g4, run |-> f.id = CAN_ID_SELF_TEST]
gaugeDispatch_noRoleCheck(g, f, ms) ==
    LET data == [k \in 1..8 |-> IF k <= f.len THEN f.data[k] ELSE g.buf[k]]
        g1 == [g EXCEPT !.canMessageReceived = TRUE, !.buf = data,
                        !.lastId = f.id, !.lastLen = f.len]
        bs == decodeBatteryStatus(data)
        g2 == IF f.id = CAN_ID_LEAF_SOC_PRECISE
              THEN [g1 EXCEPT !.gaugeValue = decodePreciseSOC(data),
                              !.lastGaugeUpdateMs = ms]
              ELSE IF g.role = LOG_ROLE_FUEL /\ f.id = CAN_ID_LEAF_BATTERY_STATUS
                      /\ ms - g.lastGaugeUpdateMs > 1000
              THEN [g1 EXCEPT !.gaugeValue = 100 * bs.socPercent,
                              !.lastGaugeUpdateMs = ms]
              ELSE IF g.role = LOG_ROLE_AMPS /\ f.id = CAN_ID_LEAF_BATTERY_STATUS
              THEN [g1 EXCEPT !.gaugeValue = 50 * bs.currentHalfA,
                              !.lastGaugeUpdateMs = ms]
              ELSE IF f.id = CAN_ID_LEAF_BATTERY_TEMP
              THEN [g1 EXCEPT !.gaugeValue = 100 * decodeBatteryTemp(data),
                              !.lastGaugeUpdateMs = ms]
              ELSE g1
        g3 == IF f.id = CAN_ID_BODY_STATE
              THEN [g2 EXCEPT !.lastBodyFlags = data[1]] ELSE g2
        g4 == IF f.id = CAN_ID_GPS_AMBIENT_LIGHT
              THEN [g3 EXCEPT !.led.ambientLevel_ =
                      CASE data[1] = 0 -> 30 [] data[1] = 1 -> 100
                        [] data[1] = 2 -> 180 [] data[1] = 3 -> 255
                        [] OTHER -> 128]
              ELSE g3
    IN [g |-> g4,
        run |-> f.id = CAN_ID_SELF_TEST
                /\ data[1] \in {SELF_TEST_TARGET_ALL, g.role}]
gaugeDispatch(g, f, ms) ==
    LET data == [k \in 1..8 |-> IF k <= f.len THEN f.data[k] ELSE g.buf[k]]
        g1 == [g EXCEPT !.canMessageReceived = TRUE, !.buf = data,
                        !.lastId = f.id, !.lastLen = f.len]
        bs == decodeBatteryStatus(data)
        g2 == IF g.role = LOG_ROLE_FUEL /\ f.id = CAN_ID_LEAF_SOC_PRECISE
              THEN [g1 EXCEPT !.gaugeValue = decodePreciseSOC(data),
                              !.lastGaugeUpdateMs = ms]
              ELSE IF g.role = LOG_ROLE_FUEL /\ f.id = CAN_ID_LEAF_BATTERY_STATUS
                      /\ ms - g.lastGaugeUpdateMs > 1000
              THEN [g1 EXCEPT !.gaugeValue = 100 * bs.socPercent,
                              !.lastGaugeUpdateMs = ms]
              ELSE IF g.role = LOG_ROLE_AMPS /\ f.id = CAN_ID_LEAF_BATTERY_STATUS
              THEN [g1 EXCEPT !.gaugeValue = 50 * bs.currentHalfA,
                              !.lastGaugeUpdateMs = ms]
              ELSE IF g.role = LOG_ROLE_TEMP /\ f.id = CAN_ID_LEAF_BATTERY_TEMP
              THEN [g1 EXCEPT !.gaugeValue = 100 * decodeBatteryTemp(data),
                              !.lastGaugeUpdateMs = ms]
              ELSE g1
        g3 == IF f.id = CAN_ID_BODY_STATE
              THEN [g2 EXCEPT !.lastBodyFlags = data[1]] ELSE g2
        g4 == IF f.id = CAN_ID_GPS_AMBIENT_LIGHT
              THEN [g3 EXCEPT !.led.ambientLevel_ =
                      CASE data[1] = 0 -> 30 [] data[1] = 1 -> 100
                        [] data[1] = 2 -> 180 [] data[1] = 3 -> 255
                        [] OTHER -> 128]
              ELSE g3
    IN [g |-> g4,
        run |-> f.id = CAN_ID_SELF_TEST
                /\ data[1] \in {SELF_TEST_TARGET_ALL, g.role}]

\* updateAnimations at time ms
updateAnimations(g, ms) ==
    LET hz == IF HasFlag(g.lastBodyFlags, BODY_FLAG_HAZARD) THEN ms ELSE g.lastHazardMs
        lf == IF HasFlag(g.lastBodyFlags, BODY_FLAG_LEFT_TURN) THEN ms ELSE g.lastLeftMs
        rt == IF HasFlag(g.lastBodyFlags, BODY_FLAG_RIGHT_TURN) THEN ms ELSE g.lastRightMs
        desired == IF hz > 0 /\ ms - hz < TURN_HOLDOFF_MS THEN "ANIM_HAZARD"
                   ELSE IF lf > 0 /\ ms - lf < TURN_HOLDOFF_MS THEN "ANIM_LEFT"
                   ELSE IF rt > 0 /\ ms - rt < TURN_HOLDOFF_MS THEN "ANIM_RIGHT"
                   ELSE "ANIM_NONE"
        led == IF desired = g.currentAnim THEN g.led
               ELSE IF desired = "ANIM_HAZARD"
                    THEN [g.led EXCEPT !.animating_ = TRUE, !.hazardMode_ = TRUE]
               ELSE IF desired = "ANIM_NONE"
                    THEN [g.led EXCEPT !.animating_ = FALSE, !.hazardMode_ = FALSE]
               ELSE [g.led EXCEPT !.animating_ = TRUE, !.hazardMode_ = FALSE,
                                  !.turnLeft_ = (desired = "ANIM_LEFT")]
    IN [g EXCEPT !.lastHazardMs = hz, !.lastLeftMs = lf, !.lastRightMs = rt,
                 !.currentAnim = desired, !.led = led]

\* updateWarnings at time ms (gaugeValue in hundredths)
updateWarnings(g, ms) ==
    LET v == g.gaugeValue
        red == <<255, 0, 0>>
        amber == <<255, 180, 0>>
        set(c) == [g EXCEPT !.led.warningActive_ = TRUE, !.led.warn = c]
        clear == [g EXCEPT !.led.warningActive_ = FALSE, !.led.warn = <<0, 0, 0>>]
    IN IF g.currentAnim # "ANIM_NONE" \/ g.canSilenceMode THEN g
       ELSE IF g.lastGaugeUpdateMs > 0 /\ ms - g.lastGaugeUpdateMs > GAUGE_STALE_MS
            THEN set(<<255, 100, 0>>)
       ELSE IF g.role = LOG_ROLE_FUEL
            THEN IF v < 1000 THEN set(red) ELSE IF v < 2000 THEN set(amber) ELSE clear
       ELSE IF g.role = LOG_ROLE_AMPS
            THEN LET a == IF v < 0 THEN -v ELSE v
                 IN IF a > 15000 THEN set(red) ELSE IF a > 10000 THEN set(amber) ELSE clear
       ELSE IF g.role = LOG_ROLE_TEMP
            THEN IF v > 4500 \/ v < -500 THEN set(red)
                 ELSE IF v > 3500 \/ v < 0 THEN set(amber) ELSE clear
       ELSE g

\* the CAN silence watchdog of the gauge loop at time ms: the gauge after it
\* and the events it logs
silenceWatchdog_relogs(g, ms) ==
    LET enter == ~g.canMessageReceived /\ ms > CAN_SILENCE_TIMEOUT_MS
        g1 == IF enter
              THEN [g EXCEPT !.canSilenceMode = TRUE,
                             !.led.bluePulse_ = TRUE, !.led.animating_ = FALSE,
                             !.led.warningActive_ = FALSE]
              ELSE g
        leave == g1.canMessageReceived /\ g1.canSilenceMode
        g2 == IF leave
              THEN [g1 EXCEPT !.canSilenceMode = FALSE, !.led.bluePulse_ = FALSE]
              ELSE g1
    IN [g |-> g2,
        events |-> (IF enter THEN <<[level |-> LOG_WARN, event |-> CAN_SILENCE]>>
                    ELSE <<>>)
                   \o (IF leave THEN <<[level |-> LOG_INFO, event |-> BUS_RECOVERED]>>
                       ELSE <<>>)]
silenceWatchdog(g, ms) ==
    LET enter == ~g.canMessageReceived /\ ms > CAN_SILENCE_TIMEOUT_MS
                 /\ ~g.canSilenceMode
        g1 == IF enter
              THEN [g EXCEPT !.canSilenceMode = TRUE,
                             !.led.bluePulse_ = TRUE, !.led.animating_ = FALSE,
                             !.led.warningActive_ = FALSE]
              ELSE g
        leave == g1.canMessageReceived /\ g1.canSilenceMode
        g2 == IF leave
              THEN [g1 EXCEPT !.canSilenceMode = FALSE, !.led.bluePulse_ = FALSE]
              ELSE g1
    IN [g |-> g2,
        events |-> (IF enter THEN <<[level |-> LOG_WARN, event |-> CAN_SILENCE]>>
                    ELSE <<>>)
                   \o (IF leave THEN <<[level |-> LOG_INFO, event |-> BUS_RECOVERED]>>
                       ELSE <<>>)]

\* ---- speed, gear and odometer ----

\* Build-time drivetrain constants: one hall pulse per driveshaft turn, a
\* 3.96 differential, 14 inch tyres, gear ratios 3.44 / 2.17 / 1.38 / 1.00
\* (as hundredths), a 15 % tolerance, a persist threshold of half a mile.
HALL_MAGNETS_PER_REV == 1
GEAR_RATIO_1 == 344
GEAR_RATIO_2 == 217
GEAR_RATIO_3 == 138
GEAR_RATIO_4 == 100
GEAR_TOLERANCE == 15
SPEED_ZERO_TIMEOUT_US == 500000
GEAR_NEUTRAL == 0
GEAR_2 == 2
GEAR_3 == 3
GEAR_4 == 4

\* Distances are counted in hall pulses: MILES_PER_PULSE is
\* 14 pi / (1 * 3.96 * 63360) = 0.000175294... mile, so a mile is 5704.69...
\* pulses and ODO_PERSIST_MILES (0.5) is 2852.34... pulses: a whole number of
\* pulses reaches the threshold exactly when it is at least 2853.
ODO_PERSIST_PULSES == 2853
\* (uint32_t) of a distance in miles
WholeMiles(pulses) == (pulses * 10000) \div 57046953

\* 32-bit unsigned values as two 16-bit halves
U32(n) == [hi |-> n \div 65536, lo |-> n % 65536]
Add32(a, n) ==
    [hi |-> (a.hi + (n \div 65536) + ((a.lo + (n % 65536)) \div 65536)) % 65536,
     lo |-> (a.lo + (n % 65536)) % 65536]
Sub32(a, b) ==
    [hi |-> (a.hi - b.hi - (IF a.lo < b.lo THEN 1 ELSE 0)) % 65536,
     lo |-> (a.lo - b.lo) % 65536]
\* a 32-bit value against a number below 2^31
Gt32(a, n) == a.hi >= 32768 \/ a.hi * 65536 + a.lo > n

\* speedMph as p pulses per t ms: p / t * 3600000 * MILES_PER_PULSE mph
ZeroSpeed == [p |-> 0, t |-> 1]

\* isr: the interrupt side of the hall sensor. enabled: interrupts are on;
\* pending: an edge waits to be served; pc: the statement hallISR is at;
\* pulses, lastPulseUs: the locals computeSpeed copies the shared pair into.
\* runs, countBy, stampBy, snapCountBy, snapStampBy and ticks are an
\* observer's notes: hallISR invocations so far, the invocation that wrote
\* hallPulseCount and lastHallPulseUs last, the same two numbers as copied
\* by computeSpeed, and the clock ticks taken.
EngNew ==
    [hallPulseCount |-> U32(0), lastHallPulseUs |-> U32(0),
     prevPulseCount |-> U32(0), prevSpeedMs |-> 0, speedMph |-> ZeroSpeed,
     currentGear |-> GEAR_UNKNOWN,
     odometerMiles |-> 0, odometerSinceLastPersist |-> 0, nvsMiles |-> 0,
     us |-> U32(0),
     isr |-> [enabled |-> TRUE, pending |-> FALSE, pc |-> "idle",
              pulses |-> U32(0), lastPulseUs |-> U32(0),
              runs |-> 0, countBy |-> 0, stampBy |-> 0,
              snapCountBy |-> 0, snapStampBy |-> 0, ticks |-> 0]]

NoSpeedSample == [valid |-> FALSE, pulseDelta |-> 0, timeDeltaMs |-> 0,
                  sincePulseMs |-> -1, before |-> ZeroSpeed, after |-> ZeroSpeed,
                  odoBefore |-> 0, wrapped |-> FALSE]

ObsNew ==
    [t0 |-> 0, lastRxAt |-> -1, lastPulseAt |-> -1, sp |-> NoSpeedSample,
     writes |-> 0, lastWriteAt |-> 0, sinceAtWrite |-> 0,
     hbCount |-> 0, hbLastAt |-> -1, hbGap |-> -1, hbByte |-> -1,
     hbFailed |-> FALSE, hbName |-> <<>>]

\* hallISR, run n times within one tick of the microsecond clock
hallISR(e, n) ==
    [e EXCEPT !.hallPulseCount = Add32(@, n), !.lastHallPulseUs = e.us]

\* computeSpeed with the pulse difference taken without the modular
\* subtraction of uint32_t, on the low half-words as signed numbers
computeSpeed_signedDelta(e, nowMs) ==
    LET pulseDelta == e.hallPulseCount.lo - e.prevPulseCount.lo
        timeDeltaMs == nowMs - e.prevSpeedMs
        elapsedUs == Sub32(e.us, e.lastHallPulseUs)
    IN [e EXCEPT
          !.odometerMiles = @ + pulseDelta,
          !.odometerSinceLastPersist = @ + pulseDelta,
          !.speedMph = IF timeDeltaMs > 0 /\ pulseDelta > 0
                       THEN [p |-> pulseDelta, t |-> timeDeltaMs]
                       ELSE IF pulseDelta = 0
                               /\ (e.lastHallPulseUs = U32(0)
                                   \/ Gt32(elapsedUs, SPEED_ZERO_TIMEOUT_US))
                            THEN ZeroSpeed
                            ELSE @,
          !.prevPulseCount = e.hallPulseCount,
          !.prevSpeedMs = nowMs]
\* computeSpeed(nowMs), with micros() reading e.us
computeSpeed(e, nowMs) ==
    LET d32 == Sub32(e.hallPulseCount, e.prevPulseCount)
        pulseDelta == d32.hi * 65536 + d32.lo
        timeDeltaMs == nowMs - e.prevSpeedMs
        elapsedUs == Sub32(e.us, e.lastHallPulseUs)
    IN [e EXCEPT
          !.odometerMiles = @ + pulseDelta,
          !.odometerSinceLastPersist = @ + pulseDelta,
          !.speedMph = IF timeDeltaMs > 0 /\ pulseDelta > 0
                       THEN [p |-> pulseDelta, t |-> timeDeltaMs]
                       ELSE IF pulseDelta = 0
                               /\ (e.lastHallPulseUs = U32(0)
                                   \/ Gt32(elapsedUs, SPEED_ZERO_TIMEOUT_US))
                            THEN ZeroSpeed
                            ELSE @,
          !.prevPulseCount = e.hallPulseCount,
          !.prevSpeedMs = nowMs]

\* estimateGear: speedMph is p pulses per t ms, so "speedMph < 2.0" is
\* p * 631.059... < 2 t, driveshaftRpm is 60000 p / t, and the observed ratio
\* |motorRpm| / driveshaftRpm is within the tolerance of a gear ratio r/100
\* iff | |motorRpm| t - 600 r p | <= 6 * GEAR_TOLERANCE * r * p
inBand_noAbs(rpm, sp, r) ==
    LET a == rpm * sp.t
        c == 600 * r * sp.p
        diff == IF a > c THEN a - c ELSE c - a
    IN diff <= 6 * GEAR_TOLERANCE * r * sp.p
inBand(rpm, sp, r) ==
    LET a == (IF rpm < 0 THEN -rpm ELSE rpm) * sp.t
        c == 600 * r * sp.p
        diff == IF a > c THEN a - c ELSE c - a
    IN diff <= 6 * GEAR_TOLERANCE * r * sp.p
\* estimateGear without the early return on the reverse flag
estimateGear_ignoresReverse(flags, sp, rpm) ==
    IF sp.p * 631059 < 2000 * sp.t \/ (IF rpm < 0 THEN -rpm ELSE rpm) < 100
    THEN GEAR_NEUTRAL
    ELSE IF 60000 * HALL_MAGNETS_PER_REV * sp.p < sp.t THEN GEAR_NEUTRAL
    ELSE IF inBand(rpm, sp, GEAR_RATIO_1) THEN GEAR_1
    ELSE IF inBand(rpm, sp, GEAR_RATIO_2) THEN GEAR_2
    ELSE IF inBand(rpm, sp, GEAR_RATIO_3) THEN GEAR_3
    ELSE IF inBand(rpm, sp, GEAR_RATIO_4) THEN GEAR_4
    ELSE GEAR_UNKNOWN
estimateGear(flags, sp, rpm) ==
    IF HasFlag(flags, BODY_FLAG_REVERSE) THEN GEAR_NEUTRAL
    ELSE IF sp.p * 631059 < 2000 * sp.t \/ (IF rpm < 0 THEN -rpm ELSE rpm) < 100
         THEN GEAR_NEUTRAL
    ELSE IF 60000 * HALL_MAGNETS_PER_REV * sp.p < sp.t THEN GEAR_NEUTRAL
    ELSE IF inBand(rpm, sp, GEAR_RATIO_1) THEN GEAR_1
    ELSE IF inBand(rpm, sp, GEAR_RATIO_2) THEN GEAR_2
    ELSE IF inBand(rpm, sp, GEAR_RATIO_3) THEN GEAR_3
    ELSE IF inBand(rpm, sp, GEAR_RATIO_4) THEN GEAR_4
    ELSE GEAR_UNKNOWN

\* persistOdoIfNeeded without the reset of the accumulator
persistOdoIfNeeded_noReset(e) ==
    IF e.odometerSinceLastPersist >= ODO_PERSIST_PULSES
    THEN [e EXCEPT !.nvsMiles = e.odometerMiles]
    ELSE e
\* persistOdoIfNeeded; nvsMiles is the "miles" key of the "odo" namespace
persistOdoIfNeeded(e) ==
    IF e.odometerSinceLastPersist >= ODO_PERSIST_PULSES
    THEN [e EXCEPT !.nvsMiles = e.odometerMiles, !.odometerSinceLastPersist = 0]
    ELSE e

NoLog == [role |-> -1, level |-> -1, event |-> NoEvent, context |-> 0, text |-> <<>>]
NoSample == [valid |-> FALSE, left |-> FALSE, right |-> FALSE,
             leftRoseAt |-> -1, rightRoseAt |-> -1, flags |-> 0]
PinsNew == [left |-> FALSE, right |-> FALSE, leftRoseAt |-> -1, rightRoseAt |-> -1]

InitNode ==
    /\ pc = "boot"
    /\ loopNow = 0
    /\ canLog = CanLogNew
    /\ heartbeat = HeartbeatNew
    /\ lastLog = NoLog
    /\ serial = <<>>
    /\ body = BodyNew
    /\ pins = PinsNew
    /\ sample = NoSample
    /\ eng = EngNew
    /\ obs = ObsNew
    /\ gauge = GaugeNew

\* the controller's answers to the next n send attempts
Oks(n) == [1..n -> TwaiTransmitResults(twaiState)]

\* what a step's transport calls leave behind: the transport, the send
\* attempts of the step, the count of failed attempts
BusEffect(bus, tx) ==
    /\ bus.txErrorCount_ <= MaxErr
    /\ canBus' = bus
    /\ lastTx' = tx
    /\ failedSends' = failedSends + FailCount(tx)

\* one canLog.log(level, event, context) call of the node
DoLog(cl, level, event, context) ==
    \E oks \in Oks(1) :
        LET r == log(cl, canBus, level, event, context, <<>>, oks) IN
        /\ BusEffect(r.bus, r.tx)
        /\ serial' = r.serial
        /\ lastLog' = serialLine(cl, level, event, context, <<>>)

NoLogStep == lastLog' = NoLog /\ serial' = <<>>

\* ---- setup() ----

SetupBootLog ==
    /\ pc = "boot"
    /\ canLog' = canLogInit(TRUE, LOG_ROLE_BODY)
    /\ DoLog(canLogInit(TRUE, LOG_ROLE_BODY), LOG_CRITICAL, BOOT_START, 0)
    /\ pc' = "caninit"
    /\ UNCHANGED <<now, twaiState, call, recov, loopNow, heartbeat, body, pins, sample>>
    /\ UNCHANGED <<stepVars, engVars>>

SetupCanInit(ok) ==
    /\ pc = "caninit"
    /\ twaiState = "UNINSTALLED"
    /\ IF ok
       THEN /\ canBus' = [canBus EXCEPT !.installed_ = TRUE, !.busOff_ = FALSE]
            /\ twaiState' = "RUNNING"
       ELSE UNCHANGED <<canBus, twaiState>>
    /\ heartbeat' = heartbeatInit(TRUE, ROLE_BODY)
    /\ lastTx' = <<>>
    /\ NoLogStep
    /\ pc' = "st_start"
    /\ UNCHANGED <<now, call, recov, failedSends, loopNow, canLog, body, pins, sample>>
    /\ UNCHANGED <<stepVars, engVars>>

SetupSelfTestStart ==
    /\ pc = "st_start"
    /\ DoLog(canLog, LOG_INFO, SELF_TEST_START, 0)
    /\ pc' = "st_pass"
    /\ UNCHANGED <<now, twaiState, call, recov, loopNow, canLog, heartbeat, body, pins, sample>>
    /\ UNCHANGED <<stepVars, engVars>>

SetupSelfTestPass ==
    /\ pc = "st_pass"
    /\ DoLog(canLog, LOG_INFO, SELF_TEST_PASS, 0)
    /\ pc' = "boot_done"
    /\ UNCHANGED <<now, twaiState, call, recov, loopNow, canLog, heartbeat, body, pins, sample>>
    /\ UNCHANGED <<stepVars, engVars>>

SetupBootComplete ==
    /\ pc = "boot_done"
    /\ DoLog(canLog, LOG_INFO, BOOT_COMPLETE, millis)
    /\ pc' = "hb"
    /\ UNCHANGED <<now, twaiState, call, recov, loopNow, canLog, heartbeat, body, pins, sample>>
    /\ UNCHANGED <<stepVars, engVars>>

\* ---- loop() ----

\* heartbeat.update()
LoopHeartbeat ==
    /\ pc = "hb"
    /\ \E oks \in Oks(1) :
         LET r == heartbeatUpdate(heartbeat, canBus, millis, oks) IN
         /\ heartbeat' = r.hb
         /\ BusEffect(r.bus, r.tx)
    /\ NoLogStep
    /\ pc' = "chk"
    /\ UNCHANGED <<now, twaiState, call, recov, loopNow, canLog, body, pins, sample>>
    /\ UNCHANGED <<stepVars, engVars>>

\* canBus.checkErrors(); now = millis()
LoopCheckErrors ==
    /\ pc = "chk"
    /\ \E tec \in {t \in TecVals : canBus.txErrorCount_ + t <= MaxErr},
          rec \in {t \in TecVals : canBus.rxErrorCount_ + t <= MaxRxErr} :
         LET r == checkErrors(canBus, twaiState, tec, rec, millis) IN
         /\ canBus' = r.bus
         /\ twaiState' = IF r.initiated THEN "RECOVERING" ELSE twaiState
    /\ loopNow' = millis
    /\ lastTx' = <<>>
    /\ NoLogStep
    /\ pc' = "rx"
    /\ UNCHANGED <<now, call, recov, failedSends, canLog, heartbeat, body, pins, sample>>
    /\ UNCHANGED <<stepVars, engVars>>

\* one turn of the receive loop: no frame ends it; a motor status frame
\* updates motorRpm; a self-test command for this node logs SELF_TEST_START
\* (SELF_TEST_PASS follows in LoopSelfTestPass)
LoopReceive ==
    /\ pc = "rx"
    /\ \E f \in {NoFrame,
                 [id |-> CAN_ID_LEAF_MOTOR_STATUS, data |-> <<0, 255, 56, 0, 0, 0, 0, 0>>],
                 [id |-> CAN_ID_SELF_TEST,
                  data |-> <<SELF_TEST_TARGET_ALL, 0, 0, 0, 0, 0, 0, 0>>],
                 [id |-> CAN_ID_SELF_TEST,
                  data |-> <<LOG_ROLE_FUEL, 0, 0, 0, 0, 0, 0, 0>>]} :
         LET r == receive(canBus, f)
             selfTest == /\ r.ret
                         /\ r.frame.id = CAN_ID_SELF_TEST
                         /\ r.frame.data[1] \in {SELF_TEST_TARGET_ALL, LOG_ROLE_BODY}
         IN
         /\ body' = IF ~r.ret THEN body
                    ELSE [body EXCEPT
                            !.canMessageReceived = TRUE,
                            !.motorRpm = IF r.frame.id = CAN_ID_LEAF_MOTOR_STATUS
                                         THEN decodeMotorRpm(r.frame.data) ELSE @]
         /\ IF selfTest
            THEN DoLog(canLog, LOG_INFO, SELF_TEST_START, 0)
            ELSE /\ NoLogStep
                 /\ lastTx' = <<>>
                 /\ UNCHANGED <<canBus, failedSends>>
         /\ pc' = IF ~r.ret THEN "state" ELSE IF selfTest THEN "rx_pass" ELSE "rx"
         /\ obs' = IF r.ret THEN [obs EXCEPT !.lastRxAt = millis] ELSE obs
    /\ UNCHANGED <<now, twaiState, call, recov, loopNow, canLog, heartbeat, pins, sample>>
    /\ UNCHANGED <<stepVars, gauge, eng>>

LoopSelfTestPass ==
    /\ pc = "rx_pass"
    /\ DoLog(canLog, LOG_INFO, SELF_TEST_PASS, 0)
    /\ pc' = "rx"
    /\ UNCHANGED <<now, twaiState, call, recov, loopNow, canLog, heartbeat, body, pins, sample>>
    /\ UNCHANGED <<stepVars, engVars>>

\* the 10 Hz block at time nowMs, with the turn inputs as the pins hold them,
\* the other inputs drawn from others, speedMph from speeds and the
\* controller's answers from answers
StateTick(nowMs, others, speeds, answers) ==
    \E other \in others, speedPayload \in speeds, oks \in answers :
        LET in == [keyOn |-> other.keyOn, brake |-> other.brake, regen |-> other.regen,
                   fan |-> other.fan, reverse |-> other.reverse,
                   left |-> pins.left, right |-> pins.right]
            r == stateTick(body, canLog, canBus, in, nowMs, speedPayload, oks)
        IN
        /\ body' = r.body
        /\ BusEffect(r.bus, r.tx)
        /\ serial' = r.serial
        /\ lastLog' = IF r.event = NoEvent THEN NoLog
                      ELSE serialLine(canLog, LOG_INFO, r.event, 0, <<>>)
        /\ sample' = [valid |-> TRUE, left |-> pins.left, right |-> pins.right,
                      leftRoseAt |-> pins.leftRoseAt, rightRoseAt |-> pins.rightRoseAt,
                      flags |-> r.body.bodyFlags]

LoopState ==
    /\ pc = "state"
    /\ IF loopNow - body.lastStateMs >= STATE_INTERVAL_MS
       THEN StateTick(loopNow,
                      {[keyOn |-> k, brake |-> k, regen |-> FALSE, fan |-> FALSE,
                        reverse |-> k] : k \in BOOLEAN},
                      {ZeroPayload, <<0, 0, 0, 0, 0, 0, 240, 63>>},   \* 0.0, 1.0 mph
                      Oks(3))
       ELSE /\ NoLogStep
            /\ lastTx' = <<>>
            /\ UNCHANGED <<canBus, failedSends, body, sample>>
    /\ pc' = "gear"
    /\ UNCHANGED <<now, twaiState, call, recov, loopNow, canLog, heartbeat, pins>>
    /\ UNCHANGED <<stepVars, engVars>>

LoopGear ==
    /\ pc = "gear"
    /\ IF loopNow - body.lastGearMs >= GEAR_INTERVAL_MS
       THEN \E gear \in {GEAR_UNKNOWN, GEAR_1}, oks \in Oks(1) :
              LET r == broadcastGear(body, canBus, gear, loopNow, oks) IN
              /\ body' = r.body
              /\ BusEffect(r.bus, r.tx)
       ELSE /\ lastTx' = <<>>
            /\ UNCHANGED <<canBus, failedSends, body>>
    /\ NoLogStep
    /\ pc' = "odo"
    /\ UNCHANGED <<now, twaiState, call, recov, loopNow, canLog, heartbeat, pins, sample>>
    /\ UNCHANGED <<stepVars, engVars>>

LoopOdo ==
    /\ pc = "odo"
    /\ IF loopNow - body.lastOdoMs >= ODO_INTERVAL_MS
       THEN \E odoU32 \in {0, 258}, oks \in Oks(1) :
              LET r == broadcastOdometer(body, canBus, odoU32, loopNow, oks) IN
              /\ body' = r.body
              /\ BusEffect(r.bus, r.tx)
       ELSE /\ lastTx' = <<>>
            /\ UNCHANGED <<canBus, failedSends, body>>
    /\ NoLogStep
    /\ pc' = "wd"
    /\ UNCHANGED <<now, twaiState, call, recov, loopNow, canLog, heartbeat, pins, sample>>
    /\ UNCHANGED <<stepVars, engVars>>

\* the CAN silence watchdog
LoopWatchdog ==
    /\ pc = "wd"
    /\ IF ~body.canMessageReceived /\ millis > CAN_SILENCE_TIMEOUT_MS
          /\ ~body.canSilenceMode
       THEN /\ body' = [body EXCEPT !.canSilenceMode = TRUE]
            /\ DoLog(canLog, LOG_WARN, CAN_SILENCE, 0)
       ELSE IF body.canMessageReceived /\ body.canSilenceMode
            THEN /\ body' = [body EXCEPT !.canSilenceMode = FALSE]
                 /\ DoLog(canLog, LOG_INFO, BUS_RECOVERED, 0)
            ELSE /\ NoLogStep
                 /\ lastTx' = <<>>
                 /\ UNCHANGED <<canBus, failedSends, body>>
    /\ pc' = "delay"
    /\ UNCHANGED <<now, twaiState, call, recov, loopNow, canLog, heartbeat, pins, sample>>
    /\ UNCHANGED <<stepVars, engVars>>

\* delay(10), and whatever else the iteration took: d ms pass
LoopDelay(d) ==
    /\ pc = "delay"
    /\ now + d <= MaxNodeMs
    /\ now' = now + d
    /\ lastTx' = <<>>
    /\ NoLogStep
    /\ pc' = "hb"
    /\ UNCHANGED <<canBus, twaiState, call, recov, failedSends,
                   loopNow, canLog, heartbeat, body, pins, sample>>
    /\ UNCHANGED <<stepVars, engVars>>

\* ========================================================================
\* Stepper wheel (StepperWheel.cpp)
\* ========================================================================

STEPS_PER_REVOLUTION == 2048
MAX_SPEED_MPH == 90
MIN_SPEED_MPH == 0
STEPS_PER_MPH == STEPS_PER_REVOLUTION \div (MAX_SPEED_MPH - MIN_SPEED_MPH)
ZERO_MPH_OFFSET == 256
TRANSITION_TIME_MS == 1200

\* The float members hold multiples of 1/PosScale step. easeInOutCubic of
\* elapsed/TRANSITION_TIME_MS is a multiple of 1/432 whenever elapsed is a
\* multiple of 100 ms, which the time steps of the stepper runs are.
PosScale == 432

Abs(x) == IF x < 0 THEN -x ELSE x

\* a / b rounded to the nearest integer, halves away from zero (b > 0)
DivRound(a, b) ==
    IF a >= 0 THEN (2 * a + b) \div (2 * b) ELSE -((2 * (-a) + b) \div (2 * b))

\* (int)round(f) of a float member
roundF(f) == DivRound(f, PosScale)

constrain(x, lo, hi) == IF x < lo THEN lo ELSE IF x > hi THEN hi ELSE x

StepperNew ==
    [currentPosition_ |-> 0, targetPosition_ |-> 0,
     currentPosF_ |-> 0, startPosF_ |-> 0, targetPosF_ |-> 0,
     homeStartPos_ |-> 0, homeEndPos_ |-> 0, homeMarkerWidth_ |-> 0,
     calibrated_ |-> FALSE, moving_ |-> FALSE, transitionStart_ |-> 0]

\* the physical wheel: pos is where it stands, the home marker covers
\* markerWidth positions from markerStart; op, seq and steps describe the
\* last StepperWheel operation and the motor steps it commanded; homed:
\* calibrateHome has returned true; searches: the single steps each findEdge
\* call of calibrateHome made; mph: the value moveToMPH was last called with
\* on a calibrated wheel (-1: none)
WheelNew ==
    [pos |-> 0, markerStart |-> 0, markerWidth |-> 0,
     op |-> "none", seq |-> 0, steps |-> 0, homed |-> FALSE, searches |-> <<>>,
     mph |-> -1]

\* readEndstop with the wheel at physical position p
readEndstop(w, p) ==
    ((p - w.markerStart) % STEPS_PER_REVOLUTION) < w.markerWidth

\* shortestPath without the wrap to the shorter direction
shortestPath_noWrap(from, to) ==
    (to - from + STEPS_PER_REVOLUTION) % STEPS_PER_REVOLUTION
\* StepperWheel::shortestPath
shortestPath(from, to) ==
    LET diff == (to - from + STEPS_PER_REVOLUTION) % STEPS_PER_REVOLUTION
    IN IF diff > STEPS_PER_REVOLUTION \div 2 THEN diff - STEPS_PER_REVOLUTION ELSE diff

stepsFromHome(mph) == ZERO_MPH_OFFSET + (mph * STEPS_PER_MPH)

\* easeInOutCubic(elapsed / TRANSITION_TIME_MS), in 432nds
easeInOutCubic(elapsed) ==
    IF 2 * elapsed < TRANSITION_TIME_MS
    THEN (elapsed * elapsed * elapsed) \div 1000000
    ELSE 432 - (((TRANSITION_TIME_MS - elapsed) * (TRANSITION_TIME_MS - elapsed)
                   * (TRANSITION_TIME_MS - elapsed)) \div 1000000)

\* findEdge from tracked position cur and physical position p: the search
\* makes single steps until the sensor changes to the sought state, at most
\* 1.5 revolutions; n is the number of steps made
findEdge(w, cur, p, clockwise, risingEdge) ==
    LET dir == IF clockwise THEN 1 ELSE -1
        limit == (STEPS_PER_REVOLUTION * 3) \div 2
        at(i) == (p + dir * i) % STEPS_PER_REVOLUTION
        hits == {i \in 0..(limit - 1) :
                    /\ readEndstop(w, at(i)) # readEndstop(w, at(i + 1))
                    /\ readEndstop(w, at(i + 1)) = risingEdge}
        n == IF hits = {} THEN limit
             ELSE 1 + CHOOSE i \in hits : \A j \in hits : i <= j
        curEnd == (cur + dir * n) % STEPS_PER_REVOLUTION
    IN [ret |-> IF hits = {} THEN -1 ELSE curEnd,
        cur |-> curEnd, pos |-> at(n), n |-> n]

\* calibrateHome that tracks the centre of the marker without moving there
calibrateHome_noCentering(st, w) ==
    LET e1 == findEdge(w, st.currentPosition_, w.pos, TRUE, TRUE)
        e2 == IF e1.ret = -1 THEN findEdge(w, e1.cur, e1.pos, FALSE, TRUE) ELSE e1
        e3 == findEdge(w, e2.cur, e2.pos, TRUE, FALSE)
        width == (e3.ret - e2.ret + STEPS_PER_REVOLUTION) % STEPS_PER_REVOLUTION
        centerPos == (e2.ret + width \div 2) % STEPS_PER_REVOLUTION
        raw == (centerPos - e3.cur + STEPS_PER_REVOLUTION) % STEPS_PER_REVOLUTION
        stepsToMove == IF raw > STEPS_PER_REVOLUTION \div 2
                       THEN raw - STEPS_PER_REVOLUTION ELSE raw
        rising == IF e1.ret = -1 THEN <<e1.n, e2.n>> ELSE <<e1.n>>
    IN IF e2.ret = -1
       THEN [st |-> [st EXCEPT !.homeStartPos_ = -1, !.currentPosition_ = e2.cur],
             pos |-> e2.pos, ret |-> FALSE, n |-> rising]
       ELSE IF e3.ret = -1
       THEN [st |-> [st EXCEPT !.homeStartPos_ = e2.ret, !.homeEndPos_ = -1,
                               !.currentPosition_ = e3.cur],
             pos |-> e3.pos, ret |-> FALSE, n |-> rising \o <<e3.n>>]
       ELSE [st |-> [st EXCEPT !.homeStartPos_ = e2.ret, !.homeEndPos_ = e3.ret,
                               !.homeMarkerWidth_ = width,
                               !.currentPosition_ = centerPos,
                               !.currentPosF_ = centerPos * PosScale,
                               !.calibrated_ = TRUE],
             pos |-> e3.pos, ret |-> TRUE,
             n |-> rising \o <<e3.n>>]

\* calibrateHome that gives up after the clockwise search
calibrateHome_noRetry(st, w) ==
    LET e1 == findEdge(w, st.currentPosition_, w.pos, TRUE, TRUE)
        e2 == e1
        e3 == findEdge(w, e2.cur, e2.pos, TRUE, FALSE)
        width == (e3.ret - e2.ret + STEPS_PER_REVOLUTION) % STEPS_PER_REVOLUTION
        centerPos == (e2.ret + width \div 2) % STEPS_PER_REVOLUTION
        raw == (centerPos - e3.cur + STEPS_PER_REVOLUTION) % STEPS_PER_REVOLUTION
        stepsToMove == IF raw > STEPS_PER_REVOLUTION \div 2
                       THEN raw - STEPS_PER_REVOLUTION ELSE raw
        rising == <<e1.n>>
    IN IF e2.ret = -1
       THEN [st |-> [st EXCEPT !.homeStartPos_ = -1, !.currentPosition_ = e2.cur],
             pos |-> e2.pos, ret |-> FALSE, n |-> rising]
       ELSE IF e3.ret = -1
       THEN [st |-> [st EXCEPT !.homeStartPos_ = e2.ret, !.homeEndPos_ = -1,
                               !.currentPosition_ = e3.cur],
             pos |-> e3.pos, ret |-> FALSE, n |-> rising \o <<e3.n>>]
       ELSE [st |-> [st EXCEPT !.homeStartPos_ = e2.ret, !.homeEndPos_ = e3.ret,
                               !.homeMarkerWidth_ = width,
                               !.currentPosition_ = centerPos,
                               !.currentPosF_ = centerPos * PosScale,
                               !.calibrated_ = TRUE],
             pos |-> (e3.pos + stepsToMove) % STEPS_PER_REVOLUTION, ret |-> TRUE,
             n |-> rising \o <<e3.n>>]

\* calibrateHome: the object after the call, the wheel's physical position,
\* the result
calibrateHome(st, w) ==
    LET e1 == findEdge(w, st.currentPosition_, w.pos, TRUE, TRUE)
        e2 == IF e1.ret = -1 THEN findEdge(w, e1.cur, e1.pos, FALSE, TRUE) ELSE e1
        e3 == findEdge(w, e2.cur, e2.pos, TRUE, FALSE)
        width == (e3.ret - e2.ret + STEPS_PER_REVOLUTION) % STEPS_PER_REVOLUTION
        centerPos == (e2.ret + width \div 2) % STEPS_PER_REVOLUTION
        raw == (centerPos - e3.cur + STEPS_PER_REVOLUTION) % STEPS_PER_REVOLUTION
        stepsToMove == IF raw > STEPS_PER_REVOLUTION \div 2
                       THEN raw - STEPS_PER_REVOLUTION ELSE raw
        rising == IF e1.ret = -1 THEN <<e1.n, e2.n>> ELSE <<e1.n>>
    IN IF e2.ret = -1
       THEN [st |-> [st EXCEPT !.homeStartPos_ = -1, !.currentPosition_ = e2.cur],
             pos |-> e2.pos, ret |-> FALSE, n |-> rising]
       ELSE IF e3.ret = -1
       THEN [st |-> [st EXCEPT !.homeStartPos_ = e2.ret, !.homeEndPos_ = -1,
                               !.currentPosition_ = e3.cur],
             pos |-> e3.pos, ret |-> FALSE, n |-> rising \o <<e3.n>>]
       ELSE [st |-> [st EXCEPT !.homeStartPos_ = e2.ret, !.homeEndPos_ = e3.ret,
                               !.homeMarkerWidth_ = width,
                               !.currentPosition_ = centerPos,
                               !.currentPosF_ = centerPos * PosScale,
                               !.calibrated_ = TRUE],
             pos |-> (e3.pos + stepsToMove) % STEPS_PER_REVOLUTION, ret |-> TRUE,
             n |-> rising \o <<e3.n>>]

\* moveToMPH(mph) at time ms
moveToMPH_noCalibrationCheck(st, mph, ms) ==
    LET m == constrain(mph, MIN_SPEED_MPH, MAX_SPEED_MPH)
        homeCenter == (st.homeStartPos_ + st.homeMarkerWidth_ \div 2) % STEPS_PER_REVOLUTION
        target == (homeCenter + stepsFromHome(m)) % STEPS_PER_REVOLUTION
        targetF == target * PosScale
        startF == st.currentPosF_
        half == (STEPS_PER_REVOLUTION \div 2) * PosScale
        wrapped == IF Abs(targetF - startF) > half
                   THEN IF targetF > startF
                        THEN targetF - STEPS_PER_REVOLUTION * PosScale
                        ELSE targetF + STEPS_PER_REVOLUTION * PosScale
                   ELSE targetF
    IN IF Abs(target - roundF(st.currentPosF_)) < 2
       THEN [st EXCEPT !.targetPosition_ = target]
       ELSE [st EXCEPT !.targetPosition_ = target,
                       !.startPosF_ = startF,
                       !.targetPosF_ = wrapped,
                       !.transitionStart_ = ms,
                       !.moving_ = TRUE]

moveToMPH(st, mph, ms) ==
    IF ~st.calibrated_ THEN st
    ELSE
     LET m == constrain(mph, MIN_SPEED_MPH, MAX_SPEED_MPH)
         homeCenter == (st.homeStartPos_ + st.homeMarkerWidth_ \div 2) % STEPS_PER_REVOLUTION
         target == (homeCenter + stepsFromHome(m)) % STEPS_PER_REVOLUTION
         targetF == target * PosScale
         startF == st.currentPosF_
         half == (STEPS_PER_REVOLUTION \div 2) * PosScale
         wrapped == IF Abs(targetF - startF) > half
                    THEN IF targetF > startF
                         THEN targetF - STEPS_PER_REVOLUTION * PosScale
                         ELSE targetF + STEPS_PER_REVOLUTION * PosScale
                    ELSE targetF
     IN IF Abs(target - roundF(st.currentPosF_)) < 2
        THEN [st EXCEPT !.targetPosition_ = target]
        ELSE [st EXCEPT !.targetPosition_ = target,
                        !.startPosF_ = startF,
                        !.targetPosF_ = wrapped,
                        !.transitionStart_ = ms,
                        !.moving_ = TRUE]

\* updateStepperPosition: the object after the call and the steps commanded
updateStepperPosition(st) ==
    LET targetSteps == roundF(st.currentPosF_) % STEPS_PER_REVOLUTION
        stepsToMove == shortestPath(st.currentPosition_, targetSteps)
    IN [st |-> IF stepsToMove # 0 THEN [st EXCEPT !.currentPosition_ = targetSteps] ELSE st,
        steps |-> stepsToMove]

\* update() at time ms: the object after the call and the steps commanded
update(st, ms) ==
    IF ~st.calibrated_ \/ ~st.moving_ THEN [st |-> st, steps |-> 0]
    ELSE LET elapsed == ms - st.transitionStart_ IN
         IF elapsed >= TRANSITION_TIME_MS
         THEN LET f == st.targetPosF_ % (STEPS_PER_REVOLUTION * PosScale)
              IN updateStepperPosition([st EXCEPT !.currentPosF_ = f,
                                                  !.currentPosition_ = roundF(f),
                                                  !.moving_ = FALSE])
         ELSE updateStepperPosition(
                  [st EXCEPT !.currentPosF_ =
                      st.startPosF_
                      + DivRound((st.targetPosF_ - st.startPosF_) * easeInOutCubic(elapsed),
                                 432)])

\* StepperWheel::getCurrentMPH
getCurrentMPH(st) ==
    IF ~st.calibrated_ THEN 0
    ELSE LET homeCenter == (st.homeStartPos_ + st.homeMarkerWidth_ \div 2)
                             % STEPS_PER_REVOLUTION
             currentPos == roundF(st.currentPosF_) % STEPS_PER_REVOLUTION
             around == (currentPos - homeCenter + STEPS_PER_REVOLUTION)
                         % STEPS_PER_REVOLUTION
             stepsFromCenter == IF around > STEPS_PER_REVOLUTION \div 2
                                THEN around - STEPS_PER_REVOLUTION ELSE around
             stepsFromZero == stepsFromCenter - ZERO_MPH_OFFSET
             quotient == IF stepsFromZero >= 0 THEN stepsFromZero \div STEPS_PER_MPH
                         ELSE 0 - ((0 - stepsFromZero) \div STEPS_PER_MPH)
         IN constrain(quotient, MIN_SPEED_MPH, MAX_SPEED_MPH)

\* ---- the wheel under arbitrary commands ----

CalibrateHome ==
    /\ ~stepper.calibrated_
    /\ wheel.op # "calibrateHome"
    /\ LET r == calibrateHome(stepper, wheel) IN
       /\ stepper' = r.st
       /\ wheel' = [wheel EXCEPT !.pos = r.pos, !.op = "calibrateHome",
                                 !.seq = 1 - @, !.steps = 0, !.homed = r.ret,
                                 !.searches = r.n]
    /\ UNCHANGED <<busVars, pc, loopNow, canLog, heartbeat, lastLog, serial,
                   body, pins, sample, engVars>>

MoveToMPH(mph) ==
    /\ stepper' = moveToMPH(stepper, mph, millis)
    /\ wheel' = [wheel EXCEPT !.op = "moveToMPH", !.seq = 1 - @, !.steps = 0,
                              !.mph = IF stepper.calibrated_ THEN mph ELSE @]
    /\ UNCHANGED <<busVars, pc, loopNow, canLog, heartbeat, lastLog, serial,
                   body, pins, sample, engVars>>

Update ==
    /\ LET r == update(stepper, millis) IN
       /\ stepper' = r.st
       /\ wheel' = [wheel EXCEPT !.pos = (@ + r.steps) % STEPS_PER_REVOLUTION,
                                 !.op = "update", !.seq = 1 - @, !.steps = r.steps]
    /\ UNCHANGED <<busVars, pc, loopNow, canLog, heartbeat, lastLog, serial,
                   body, pins, sample, engVars>>

StepperTick(d) ==
    /\ now + d <= MaxStepperMs
    /\ now' = now + d
    /\ UNCHANGED <<canBus, twaiState, call, lastTx, recov, failedSends, nodeVars>>

InitWheel ==
    /\ stepper = StepperNew
    /\ wheel = WheelNew

\* ---- the turn inputs against the 10 Hz sampling ----

\* a turn input changes level; the time it goes on is remembered
PinChange(side) ==
    /\ pins' = IF side = "left"
               THEN [pins EXCEPT !.left = ~@,
                                 !.leftRoseAt = IF pins.left THEN @ ELSE now]
               ELSE [pins EXCEPT !.right = ~@,
                                 !.rightRoseAt = IF pins.right THEN @ ELSE now]
    /\ UNCHANGED <<busVars, pc, loopNow, canLog, heartbeat, lastLog, serial,
                   body, sample, stepVars, engVars>>

\* key off, brake, regen, fan and reverse off
KeyOffInputs == [keyOn |-> FALSE, brake |-> FALSE, regen |-> FALSE, fan |-> FALSE, reverse |-> FALSE]

\* the loop iteration in which the 10 Hz block is due, with the car parked
\* (key off, standing still) and the controller accepting every frame
BodyStateTick ==
    /\ millis - body.lastStateMs >= STATE_INTERVAL_MS
    /\ StateTick(millis, {KeyOffInputs}, {ZeroPayload}, {<<TRUE, TRUE, TRUE>>})
    /\ loopNow' = millis
    /\ UNCHANGED <<now, twaiState, call, recov, pc, canLog, heartbeat, pins, stepVars, engVars>>

\* time passes between loop iterations; the loop runs the 10 Hz block in the
\* first iteration in which it is due
BodyTick(d) ==
    /\ millis - body.lastStateMs < STATE_INTERVAL_MS
    /\ now + d <= MaxBodyMs
    /\ now' = now + d
    /\ UNCHANGED <<canBus, twaiState, call, lastTx, recov, failedSends, nodeVars>>

\* the body controller after setup() on a healthy transport
InitBody ==
    /\ now = 0
    /\ canBus = [CanBusNew EXCEPT !.installed_ = TRUE]
    /\ twaiState = "RUNNING"
    /\ call = NoCall
    /\ lastTx = <<>>
    /\ recov = NoRecov
    /\ failedSends = 0
    /\ pc = "hb"
    /\ loopNow = 0
    /\ canLog = canLogInit(TRUE, LOG_ROLE_BODY)
    /\ heartbeat = heartbeatInit(TRUE, ROLE_BODY)
    /\ lastLog = NoLog
    /\ serial = <<>>
    /\ body = BodyNew
    /\ pins = PinsNew
    /\ sample = NoSample
    /\ eng = EngNew
    /\ obs = ObsNew
    /\ gauge = GaugeNew
    /\ stepper = StepperNew
    /\ wheel = WheelNew

\* ---- the loop against the hall interrupt ----

\* the hall interrupt fires n times; no two bursts in the same millisecond
HallPulses(n) ==
    /\ obs.lastPulseAt # now
    /\ eng' = hallISR(eng, n)
    /\ obs' = [obs EXCEPT !.lastPulseAt = now]
    /\ UNCHANGED <<busVars, pc, loopNow, canLog, heartbeat, lastLog, serial,
                   body, pins, sample, stepVars, gauge>>

\* the receive loop finds a motor status frame carrying rpm. motorRpm is read
\* by estimateGear only, so the frames that matter are the last ones before
\* the 2 Hz block: those of the iteration in which it is due
EngReceive(rpm) ==
    LET raw == rpm % 65536
        r == receive(canBus, [id |-> CAN_ID_LEAF_MOTOR_STATUS,
                              data |-> <<0, raw \div 256, raw % 256, 0, 0, 0, 0, 0>>])
    IN
    /\ millis - body.lastGearMs >= GEAR_INTERVAL_MS
    /\ r.ret
    /\ body.motorRpm # decodeMotorRpm(r.frame.data)
    /\ body' = [body EXCEPT !.canMessageReceived = TRUE,
                            !.motorRpm = decodeMotorRpm(r.frame.data)]
    /\ obs' = [obs EXCEPT !.lastRxAt = now]
    /\ UNCHANGED <<busVars, pc, loopNow, canLog, heartbeat, lastLog, serial,
                   pins, sample, stepVars, gauge, eng>>

\* the 10 Hz block in the iteration in which it is due: the inputs (key off,
\* reverse either way), the BODY_STATE frame, computeSpeed and the BODY_SPEED
\* frame (the bytes of 0.0, or of a non-zero double), on a controller that
\* accepts every frame
EngState ==
    /\ millis - body.lastStateMs >= STATE_INTERVAL_MS
    /\ LET e == computeSpeed(eng, millis) IN
       /\ StateTick(millis,
                    {[KeyOffInputs EXCEPT !.reverse = rv] : rv \in BOOLEAN},
                    {IF e.speedMph.p = 0 THEN ZeroPayload
                     ELSE <<0, 0, 0, 0, 0, 0, 240, 63>>},
                    {<<TRUE, TRUE, TRUE>>})
       /\ eng' = e
       /\ obs' = [obs EXCEPT !.sp =
                    [valid |-> TRUE,
                     pulseDelta |-> e.odometerMiles - eng.odometerMiles,
                     timeDeltaMs |-> millis - eng.prevSpeedMs,
                     sincePulseMs |-> IF obs.lastPulseAt < 0 THEN -1
                                      ELSE millis - obs.lastPulseAt,
                     before |-> eng.speedMph, after |-> e.speedMph,
                     odoBefore |-> eng.odometerMiles,
                     wrapped |-> e.prevPulseCount.hi < eng.prevPulseCount.hi]]
    /\ loopNow' = millis
    /\ UNCHANGED <<now, twaiState, call, recov, pc, canLog, heartbeat, pins, stepVars, gauge>>

\* the 2 Hz block, after the 10 Hz block of the same iteration
EngGear ==
    /\ millis - body.lastStateMs < STATE_INTERVAL_MS
    /\ millis - body.lastGearMs >= GEAR_INTERVAL_MS
    /\ LET gear == estimateGear(body.bodyFlags, eng.speedMph, body.motorRpm)
           r == broadcastGear(body, canBus, gear, millis, <<TRUE>>)
       IN /\ eng' = [eng EXCEPT !.currentGear = gear]
          /\ body' = r.body
          /\ BusEffect(r.bus, r.tx)
    /\ NoLogStep
    /\ UNCHANGED <<now, twaiState, call, recov, pc, loopNow, canLog, heartbeat,
                   pins, sample, stepVars, gauge, obs>>

\* the 1 Hz block, after the 2 Hz block of the same iteration
EngOdo ==
    /\ millis - body.lastStateMs < STATE_INTERVAL_MS
    /\ millis - body.lastGearMs < GEAR_INTERVAL_MS
    /\ millis - body.lastOdoMs >= ODO_INTERVAL_MS
    /\ LET r == broadcastOdometer(body, canBus, WholeMiles(eng.odometerMiles),
                                  millis, <<TRUE>>)
           e == persistOdoIfNeeded(eng)
       IN /\ eng' = e
          /\ body' = r.body
          /\ BusEffect(r.bus, r.tx)
          /\ obs' = IF e.nvsMiles = eng.nvsMiles
                       /\ e.odometerSinceLastPersist = eng.odometerSinceLastPersist
                    THEN obs
                    ELSE [obs EXCEPT !.writes = @ + 1, !.lastWriteAt = millis,
                                     !.sinceAtWrite = eng.odometerSinceLastPersist]
    /\ NoLogStep
    /\ UNCHANGED <<now, twaiState, call, recov, pc, loopNow, canLog, heartbeat,
                   pins, sample, stepVars, gauge>>

\* d ms pass once the blocks that are due have run
EngTick(d) ==
    /\ millis - body.lastStateMs < STATE_INTERVAL_MS
    /\ millis - body.lastGearMs < GEAR_INTERVAL_MS
    /\ millis - body.lastOdoMs < ODO_INTERVAL_MS
    /\ now + d <= obs.t0 + MaxEngMs
    /\ now' = now + d
    /\ eng' = [eng EXCEPT !.us = Add32(@, 1000 * d)]
    /\ UNCHANGED <<canBus, twaiState, call, lastTx, recov, failedSends,
                   pc, loopNow, canLog, heartbeat, lastLog, serial, body, pins,
                   sample, stepVars, gauge, obs>>

\* the body controller in its loop on a healthy transport: just after setup()
\* with a stored odometer, or later, 200 ms before the microsecond clock
\* wraps, the pulse counter close to its own wrap, the last pulse a second
\* ago, three pulses short of the next odometer write
InitEngine ==
    /\ canBus = [CanBusNew EXCEPT !.installed_ = TRUE]
    /\ twaiState = "RUNNING"
    /\ call = NoCall
    /\ lastTx = <<>>
    /\ recov = NoRecov
    /\ failedSends = 0
    /\ pc = "hb"
    /\ loopNow = 0
    /\ canLog = canLogInit(TRUE, LOG_ROLE_BODY)
    /\ heartbeat = heartbeatInit(TRUE, ROLE_BODY)
    /\ lastLog = NoLog
    /\ serial = <<>>
    /\ pins = PinsNew
    /\ sample = NoSample
    /\ stepper = StepperNew
    /\ wheel = WheelNew
    /\ gauge = GaugeNew
    /\ \E late \in BOOLEAN :
         LET t == IF late THEN 4294767 ELSE 1000
             u == IF late THEN [hi |-> 65532, lo |-> 62144] ELSE U32(1000000)
         IN
         /\ now = t
         /\ body = IF late
                   THEN [BodyNew EXCEPT !.lastStateMs = t, !.lastGearMs = t - 400,
                                        !.lastOdoMs = t - 600]
                   ELSE BodyNew
         /\ eng = IF late
                  THEN [EngNew EXCEPT
                          !.us = u, !.prevSpeedMs = t,
                          !.hallPulseCount = [hi |-> 65535, lo |-> 65534],
                          !.prevPulseCount = [hi |-> 65535, lo |-> 65534],
                          !.lastHallPulseUs = Sub32(u, U32(1000000)),
                          !.odometerMiles = 2 * ODO_PERSIST_PULSES - 3,
                          !.odometerSinceLastPersist = ODO_PERSIST_PULSES - 3,
                          !.nvsMiles = ODO_PERSIST_PULSES]
                  ELSE [EngNew EXCEPT
                          !.us = u, !.prevSpeedMs = t,
                          !.odometerMiles = ODO_PERSIST_PULSES,
                          !.nvsMiles = ODO_PERSIST_PULSES]
         /\ obs = [ObsNew EXCEPT !.t0 = t,
                                 !.lastPulseAt = IF late THEN t - 1000 ELSE -1]

\* ---- the heartbeat under update calls at any time ----

\* Heartbeat::init with a role name, once, in setup()
HbInit(roleName) ==
    /\ ~heartbeat.canBus_
    /\ heartbeat' = heartbeatInit(TRUE, roleName)
    /\ obs' = [obs EXCEPT !.hbName = roleName]
    /\ UNCHANGED <<busVars, pc, loopNow, canLog, lastLog, serial, body, pins,
                   sample, stepVars, gauge, eng>>

\* Heartbeat::update, on a controller that may accept or refuse the frame
HbUpdate ==
    /\ \E oks \in Oks(1) :
         LET r == heartbeatUpdate(heartbeat, canBus, millis, oks)
             sent == r.hb # heartbeat
         IN
         /\ heartbeat' = r.hb
         /\ BusEffect(r.bus, r.tx)
         /\ obs' = IF ~sent THEN obs
                   ELSE [obs EXCEPT
                           !.hbCount = @ + 1,
                           !.hbLastAt = millis,
                           !.hbGap = IF obs.hbLastAt < 0 THEN -1
                                     ELSE millis - obs.hbLastAt,
                           !.hbByte = heartbeat.uptimeCounter_,
                           !.hbFailed = r.tx = <<>> \/ ~r.tx[1].ok]
    /\ UNCHANGED <<now, twaiState, call, recov, pc, loopNow, canLog, lastLog,
                   serial, body, pins, sample, stepVars, gauge, eng>>

HbTick(d) ==
    /\ now + d <= obs.t0 + MaxHbMs
    /\ now' = now + d
    /\ UNCHANGED <<canBus, twaiState, call, lastTx, recov, failedSends, nodeVars>>

\* a node before Heartbeat::init, or one whose heartbeat has made 255 send
\* attempts, the last of them 500 ms ago
InitHb ==
    /\ canBus = [CanBusNew EXCEPT !.installed_ = TRUE]
    /\ twaiState = "RUNNING"
    /\ call = NoCall
    /\ lastTx = <<>>
    /\ recov = NoRecov
    /\ failedSends = 0
    /\ pc = "hb"
    /\ loopNow = 0
    /\ canLog = canLogInit(TRUE, LOG_ROLE_BODY)
    /\ lastLog = NoLog
    /\ serial = <<>>
    /\ body = BodyNew
    /\ pins = PinsNew
    /\ sample = NoSample
    /\ eng = EngNew
    /\ gauge = GaugeNew
    /\ stepper = StepperNew
    /\ wheel = WheelNew
    /\ \E k \in {0, 255} :
         /\ now = 1000 * k + (IF k = 0 THEN 0 ELSE 500)
         /\ heartbeat = IF k = 0 THEN HeartbeatNew
                        ELSE [heartbeatInit(TRUE, ROLE_BODY) EXCEPT
                                !.uptimeCounter_ = k, !.lastBroadcastMs_ = 1000 * k]
         /\ obs = IF k = 0 THEN ObsNew
                  ELSE [ObsNew EXCEPT !.t0 = now, !.hbCount = k,
                                      !.hbLastAt = 1000 * k, !.hbGap = 1000,
                                      !.hbByte = k - 1, !.hbName = ROLE_BODY]

\* ---- servo gauge loop() ----

MaxGaugeMs == 9000
SELF_TEST_MS == 3500

\* loop() up to the receive loop, d ms after the previous iteration ended:
\* heartbeat.update() and canBus.checkErrors() on a healthy controller. The
\* receive buffer is a local of loop() without initialiser: it holds what
\* the stack holds, here what the last iteration left or zeros.
GaugeLoopStart(d) ==
    /\ gauge.phase = "idle"
    /\ now + d <= MaxGaugeMs
    /\ now' = now + d
    /\ LET h == heartbeatUpdate(heartbeat, canBus, now + d, <<TRUE>>)
           c == checkErrors(h.bus, twaiState, 0, 0, now + d)
       IN /\ heartbeat' = h.hb
          /\ BusEffect(c.bus, h.tx)
    /\ \E b \in {gauge.buf, ZeroPayload} :
         gauge' = [gauge EXCEPT !.phase = "rx", !.buf = b]
    /\ NoLogStep
    /\ UNCHANGED <<twaiState, call, recov, pc, loopNow, canLog, body, pins,
                   sample, stepVars, eng, obs>>

\* one turn of the receive loop: no frame ends it; a frame is dispatched,
\* and a self-test command for this node runs runSelfTest to its end
\* (SELF_TEST_START, the sweeps, servo.writeDirect(0), SELF_TEST_PASS)
GaugeReceive(f) ==
    /\ gauge.phase = "rx"
    /\ LET r == receive(canBus, f)
           x == gaugeDispatch(gauge, r.frame, millis)
           l1 == log(canLog, canBus, LOG_INFO, SELF_TEST_START, 0, <<>>, <<TRUE>>)
           l2 == log(canLog, l1.bus, LOG_INFO, SELF_TEST_PASS, 0, <<>>, <<TRUE>>)
       IN IF ~r.ret
          THEN /\ gauge' = [gauge EXCEPT !.phase = "tail"]
               /\ NoLogStep
               /\ lastTx' = <<>>
               /\ UNCHANGED <<now, canBus, failedSends>>
          ELSE IF x.run
          THEN /\ now + SELF_TEST_MS <= MaxGaugeMs
               /\ now' = now + SELF_TEST_MS
               /\ gauge' = [x.g EXCEPT !.selfTests = @ + 1, !.targetAngle_ = 0,
                                       !.led.shown = "off"]
               /\ BusEffect(l2.bus, l1.tx \o l2.tx)
               /\ serial' = l1.serial \o l2.serial
               /\ lastLog' = serialLine(canLog, LOG_INFO, SELF_TEST_PASS, 0, <<>>)
          ELSE /\ gauge' = x.g
               /\ NoLogStep
               /\ lastTx' = <<>>
               /\ UNCHANGED <<now, canBus, failedSends>>
    /\ UNCHANGED <<twaiState, call, recov, pc, loopNow, canLog, heartbeat, body,
                   pins, sample, stepVars, eng, obs>>

\* the rest of loop(): servo.setValue, updateAnimations, updateWarnings, the
\* silence watchdog with its log calls, ledRing.update
GaugeLoopEnd ==
    /\ gauge.phase = "tail"
    /\ LET lo == IF gauge.role = LOG_ROLE_FUEL THEN 0
                 ELSE IF gauge.role = LOG_ROLE_AMPS THEN -10000 ELSE -1000
           hi == IF gauge.role = LOG_ROLE_FUEL THEN 10000
                 ELSE IF gauge.role = LOG_ROLE_AMPS THEN 20000 ELSE 5000
           g1 == [gauge EXCEPT !.targetAngle_ =
                    ((constrain(gauge.gaugeValue, lo, hi) - lo) * 180) \div (hi - lo)]
           g2 == updateWarnings(updateAnimations(g1, millis), millis)
           w == silenceWatchdog(g2, millis)
           led == w.g.led
           shown == IF led.bluePulse_ THEN "bluePulse"
                    ELSE IF led.warningActive_ THEN "warning"
                    ELSE IF led.animating_ THEN "animation" ELSE "ambient"
       IN /\ gauge' = [w.g EXCEPT !.phase = "idle", !.led.shown = shown,
                                  !.events = @ \o [i \in 1..Len(w.events) |->
                                                     w.events[i].event]]
          /\ IF w.events = <<>>
             THEN /\ NoLogStep
                  /\ lastTx' = <<>>
                  /\ UNCHANGED <<canBus, failedSends>>
             ELSE LET e == w.events[1]
                      r == log(canLog, canBus, e.level, e.event, 0, <<>>, <<TRUE>>)
                  IN /\ BusEffect(r.bus, r.tx)
                     /\ serial' = r.serial
                     /\ lastLog' = serialLine(canLog, e.level, e.event, 0, <<>>)
    /\ UNCHANGED <<now, twaiState, call, recov, pc, loopNow, canLog, heartbeat,
                   body, pins, sample, stepVars, eng, obs>>

\* a FUEL or a TEMP gauge when setup() has returned: transport installed,
\* log and heartbeat bound, the startup self-test done
InitGauge ==
    /\ now = SELF_TEST_MS
    /\ canBus = [CanBusNew EXCEPT !.installed_ = TRUE]
    /\ twaiState = "RUNNING"
    /\ call = NoCall
    /\ lastTx = <<>>
    /\ recov = NoRecov
    /\ failedSends = 0
    /\ pc = "gauge"
    /\ loopNow = 0
    /\ lastLog = NoLog
    /\ serial = <<>>
    /\ body = BodyNew
    /\ pins = PinsNew
    /\ sample = NoSample
    /\ eng = EngNew
    /\ obs = ObsNew
    /\ stepper = StepperNew
    /\ wheel = WheelNew
    /\ \E role \in {LOG_ROLE_FUEL, LOG_ROLE_TEMP} :
         /\ canLog = canLogInit(TRUE, role)
         /\ heartbeat = heartbeatInit(TRUE, IF role = LOG_ROLE_FUEL
                                    THEN <<70, 85, 69, 76, 32>>      \* "FUEL "
                                    ELSE <<84, 69, 77, 80, 32>>)     \* "TEMP "
         /\ gauge = [GaugeNew EXCEPT !.role = role, !.phase = "idle"]

\* ---- speedometer setup() and loop() ----

MaxSpeedoMs == 1500
MaxRetargetMs == 8000
LOG_ROLE_SPEED == 3
STEPPER_HOME_OK == 52       \* 0x34
STEPPER_HOME_FAIL == 53     \* 0x35

\* the needle part of the speedometer's runSelfTest, entered at time ms with
\* the wheel at physical position pos: 1756 ms of servo and LED sweeps, then
\* on a calibrated wheel moveToMPH(45) and moveToMPH(0), each followed by
\* update() every 10 ms until the transition is over, then 700 ms of flashes.
\* Of the updates of a transition the one 10 ms before its end and the one
\* at its end are computed: the earlier ones write currentPosF_ and
\* currentPosition_, which the next update overwrites, and their motor steps
\* add up (modulo a revolution) to the steps from the position at the start
\* to the position at that time.
runSelfTest(st, pos, ms) ==
    LET settle(s, p, t) ==
            IF ~s.moving_ THEN [st |-> s, pos |-> p, ms |-> t]
            ELSE LET last == update(s, t + TRANSITION_TIME_MS - 10)
                     fin == update(last.st, t + TRANSITION_TIME_MS)
                 IN [st |-> fin.st,
                     pos |-> (p + last.steps + fin.steps) % STEPS_PER_REVOLUTION,
                     ms |-> t + TRANSITION_TIME_MS + 10]
        a == settle(moveToMPH(st, 45, ms + 1756), pos, ms + 1756)
        b == settle(moveToMPH(a.st, 0, a.ms), a.pos, a.ms)
    IN IF st.calibrated_ THEN [b EXCEPT !.ms = @ + 700]
       ELSE [st |-> st, pos |-> pos, ms |-> ms + 1756 + 700]

\* setup(), the homing: calibrateHome (5 ms per search step) and the
\* STEPPER_HOME_OK or STEPPER_HOME_FAIL log
SpeedoHoming ==
    /\ gauge.phase = "setup"
    /\ \E r \in {calibrateHome(stepper, wheel)} :
       LET RECURSIVE Sum(_)
           Sum(q) == IF q = <<>> THEN 0 ELSE Head(q) + Sum(Tail(q))
           l == IF r.ret
                THEN log(canLog, canBus, LOG_INFO, STEPPER_HOME_OK, 0, <<>>, <<TRUE>>)
                ELSE log(canLog, canBus, LOG_WARN, STEPPER_HOME_FAIL, 0, <<>>, <<TRUE>>)
       IN /\ stepper' = r.st
          /\ wheel' = [wheel EXCEPT !.pos = r.pos, !.op = "calibrateHome",
                                    !.seq = 1 - @, !.steps = 0, !.homed = r.ret,
                                    !.searches = r.n]
          /\ now' = now + 5 * Sum(r.n)
          /\ gauge' = [gauge EXCEPT !.phase = "homed"]
          /\ BusEffect(l.bus, l.tx)
          /\ serial' = l.serial
          /\ lastLog' = serialLine(canLog, IF r.ret THEN LOG_INFO ELSE LOG_WARN,
                                   IF r.ret THEN STEPPER_HOME_OK ELSE STEPPER_HOME_FAIL,
                                   0, <<>>)
    /\ UNCHANGED <<twaiState, call, recov, pc, loopNow, canLog, heartbeat, body,
                   pins, sample, eng, obs>>

\* the rest of setup(): runSelfTest with its two logs, the gear servo parked
\* at neutral, the BOOT_COMPLETE log
SpeedoSetupEnd ==
    /\ gauge.phase = "homed"
    /\ \E t \in {runSelfTest(stepper, wheel.pos, now)} :
       LET l2 == log(canLog, canBus, LOG_INFO, SELF_TEST_START, 0, <<>>, <<TRUE>>)
           l3 == log(canLog, l2.bus, LOG_INFO, SELF_TEST_PASS, 0, <<>>, <<TRUE>>)
           l4 == log(canLog, l3.bus, LOG_INFO, BOOT_COMPLETE, t.ms, <<>>, <<TRUE>>)
       IN /\ stepper' = t.st
          /\ wheel' = [wheel EXCEPT !.pos = t.pos, !.op = "runSelfTest",
                                    !.seq = 1 - @, !.steps = 0]
          /\ now' = t.ms
          /\ obs' = [obs EXCEPT !.t0 = t.ms]
          /\ gauge' = [gauge EXCEPT !.phase = "loop", !.targetAngle_ = 15]
          /\ BusEffect(l4.bus, l2.tx \o l3.tx \o l4.tx)
          /\ serial' = l2.serial \o l3.serial \o l4.serial
          /\ lastLog' = serialLine(canLog, LOG_INFO, BOOT_COMPLETE, t.ms, <<>>)
    /\ UNCHANGED <<twaiState, call, recov, pc, loopNow, canLog, heartbeat, body,
                   pins, sample, eng>>

\* one iteration of loop(), d ms after the previous one, with at most one
\* frame f (of full length) in the receive queue and a healthy controller:
\* heartbeat, checkErrors, the dispatch of f, stepperWheel.update(),
\* updateAnimations, ledRing.update, the silence watchdog. The smoothed angle
\* that gearServo.update() writes is not tracked, only the servo's target.
SpeedoLoop(f, d) ==
    /\ gauge.phase = "loop"
    /\ LET ms == now + d
           h == heartbeatUpdate(heartbeat, canBus, ms, <<TRUE>>)
           c == checkErrors(h.bus, twaiState, 0, 0, ms)
           rx == receive(c.bus, f)
           id == IF rx.ret THEN f.id ELSE -1
           data == IF rx.ret THEN f.data ELSE gauge.buf
           \* (int)mph of the little-endian IEEE 754 double in data, for
           \* magnitudes below 2^21
           e == (data[8] % 128) * 16 + (data[7] \div 16) - 1023
           mag == IF e < 0 THEN 0
                  ELSE (2 ^ 20 + (data[7] % 16) * 65536 + data[6] * 256 + data[5])
                         \div 2 ^ (20 - e)
           mph == IF data[8] >= 128 THEN -mag ELSE mag
           gear == data[1]
           angle == IF HasFlag(gauge.lastBodyFlags, BODY_FLAG_REVERSE) THEN 0
                    ELSE IF gear = GEAR_UNKNOWN \/ gear > GEAR_4 THEN 15
                    ELSE 15 * (gear + 1)
           g1 == IF rx.ret
                 THEN [gauge EXCEPT !.canMessageReceived = TRUE, !.buf = data,
                                    !.lastId = id, !.lastLen = f.len]
                 ELSE gauge
           st1 == IF id = CAN_ID_BODY_SPEED THEN moveToMPH(stepper, mph, ms)
                  ELSE stepper
           g2 == CASE id = CAN_ID_BODY_GEAR -> [g1 EXCEPT !.targetAngle_ = angle]
                   [] id = CAN_ID_GPS_AMBIENT_LIGHT ->
                        [g1 EXCEPT !.led.ambientLevel_ =
                           CASE data[1] = 0 -> 30 [] data[1] = 1 -> 100
                             [] data[1] = 2 -> 180 [] data[1] = 3 -> 255
                             [] OTHER -> 128]
                   [] id = CAN_ID_BODY_STATE -> [g1 EXCEPT !.lastBodyFlags = data[1]]
                   [] OTHER -> g1
           run == id = CAN_ID_SELF_TEST
                  /\ data[1] \in {SELF_TEST_TARGET_ALL, LOG_ROLE_SPEED}
           l1 == IF run
                 THEN log(canLog, c.bus, LOG_INFO, SELF_TEST_START, 0, <<>>, <<TRUE>>)
                 ELSE [bus |-> c.bus, tx |-> <<>>, serial |-> <<>>]
           l2 == IF run
                 THEN log(canLog, l1.bus, LOG_INFO, SELF_TEST_PASS, 0, <<>>, <<TRUE>>)
                 ELSE l1
           g3 == IF run THEN [g2 EXCEPT !.selfTests = @ + 1, !.targetAngle_ = 0]
                 ELSE g2
           ledUpdate(g) ==
               [g EXCEPT !.led.shown =
                  IF g.led.bluePulse_ THEN "bluePulse"
                  ELSE IF g.led.warningActive_ THEN "warning"
                  ELSE IF g.led.animating_ THEN "animation" ELSE "ambient"]
       IN \E t \in {IF run THEN runSelfTest(st1, wheel.pos, ms)
                    ELSE [st |-> st1, pos |-> wheel.pos, ms |-> ms]} :
          \E u \in {update(t.st, t.ms)},
             w \in {silenceWatchdog(ledUpdate(updateAnimations(g3, t.ms)), t.ms)} :
          \E l3 \in {IF w.events = <<>>
                     THEN [bus |-> l2.bus, tx |-> <<>>, serial |-> <<>>]
                     ELSE log(canLog, l2.bus, w.events[1].level, w.events[1].event,
                              0, <<>>, <<TRUE>>)} :
          /\ now' = t.ms
          /\ heartbeat' = h.hb
          /\ stepper' = u.st
          /\ wheel' = [wheel EXCEPT !.pos = (t.pos + u.steps) % STEPS_PER_REVOLUTION,
                                    !.op = IF id = CAN_ID_BODY_SPEED THEN "moveToMPH"
                                           ELSE "update",
                                    !.seq = 1 - @, !.steps = u.steps,
                                    !.mph = IF id = CAN_ID_BODY_SPEED /\ stepper.calibrated_
                                            THEN mph ELSE @]
          /\ gauge' = [w.g EXCEPT !.events = @ \o [i \in 1..Len(w.events) |->
                                                     w.events[i].event]]
          /\ BusEffect(l3.bus, h.tx \o (IF run THEN l1.tx \o l2.tx ELSE <<>>) \o l3.tx)
          /\ serial' = (IF run THEN l1.serial \o l2.serial ELSE <<>>) \o l3.serial
          /\ lastLog' = IF w.events # <<>>
                        THEN serialLine(canLog, w.events[1].level, w.events[1].event,
                                        0, <<>>)
                        ELSE IF run
                        THEN serialLine(canLog, LOG_INFO, SELF_TEST_PASS, 0, <<>>)
                        ELSE NoLog
    /\ UNCHANGED <<twaiState, call, recov, pc, loopNow, canLog, body, pins,
                   sample, eng, obs>>

\* the speedometer in setup() before the homing: transport installed, log
\* and heartbeat bound; the wheel stands anywhere, its marker is narrow,
\* wide, missing (width 0) or covers the whole ring (width 2048)
InitSpeedo ==
    /\ now = 100
    /\ canBus = [CanBusNew EXCEPT !.installed_ = TRUE]
    /\ twaiState = "RUNNING"
    /\ call = NoCall
    /\ lastTx = <<>>
    /\ recov = NoRecov
    /\ failedSends = 0
    /\ pc = "speedo"
    /\ loopNow = 0
    /\ canLog = canLogInit(TRUE, LOG_ROLE_SPEED)
    /\ heartbeat = heartbeatInit(TRUE, <<83, 80, 69, 69, 68>>)      \* "SPEED"
    /\ lastLog = NoLog
    /\ serial = <<>>
    /\ body = BodyNew
    /\ pins = PinsNew
    /\ sample = NoSample
    /\ eng = EngNew
    /\ obs = ObsNew
    /\ gauge = [GaugeNew EXCEPT !.role = LOG_ROLE_SPEED, !.phase = "setup"]
    /\ stepper = StepperNew
    /\ \E p \in {0, 1500, 2047}, ms \in {0, 1490, 2040},
          mw \in {0, 1, 2, 40, 1024, 2047, STEPS_PER_REVOLUTION} :
         wheel = [WheelNew EXCEPT !.pos = p, !.markerStart = ms, !.markerWidth = mw]

\* a speedometer whose wheel stands inside a marker of 40 steps
InitRetarget ==
    /\ InitSpeedo
    /\ wheel.pos = 0 /\ wheel.markerStart = 2040 /\ wheel.markerWidth = 40

\* ---- updateStepperPosition on its own ----

\* updateStepperPosition commands shortestPath(currentPosition_, target)
UpdateStepperPosition ==
    /\ wheel.op = "none"
    /\ LET r == updateStepperPosition(stepper) IN
       /\ stepper' = r.st
       /\ wheel' = [wheel EXCEPT !.pos = (@ + r.steps) % STEPS_PER_REVOLUTION,
                                 !.op = "updateStepperPosition", !.seq = 1 - @,
                                 !.steps = r.steps]
    /\ UNCHANGED <<busVars, pc, loopNow, canLog, heartbeat, lastLog, serial,
                   body, pins, sample, engVars>>

\* a calibrated wheel tracked at position from whose eased position has
\* reached to: from at and around 0, a quarter, a half and a full
\* revolution, to anywhere on the ring
InitPath ==
    /\ InitBus /\ InitNode
    /\ \E from \in {0, 1, 2, 511, 1023, 1024, 1025, 2046, 2047},
          to \in 0..(STEPS_PER_REVOLUTION - 1) :
         /\ stepper = [StepperNew EXCEPT !.currentPosition_ = from,
                                         !.currentPosF_ = to * PosScale,
                                         !.calibrated_ = TRUE, !.moving_ = TRUE]
         /\ wheel = [WheelNew EXCEPT !.pos = from, !.homed = TRUE]

\* ---- CanLog::log with accompanying text ----

\* CanLog::setMinLevel
SetMinLevel(level) ==
    /\ canLog' = [canLog EXCEPT !.minLevel_ = level]
    /\ lastLog' = NoLog
    /\ serial' = <<>>
    /\ lastTx' = <<>>
    /\ UNCHANGED <<now, canBus, twaiState, call, recov, failedSends, pc, loopNow,
                   heartbeat, body, pins, sample, stepVars, engVars>>

\* one canLog.log(level, event, context, text) call; the controller refuses
\* at most one of the sends of a call
LogCall(level, event, context, text) ==
    \E oks \in {o \in Oks(LOG_TEXT_MAX_FRAMES + 1) :
                  twaiState = "RUNNING" => FailCount([k \in DOMAIN o |-> [ok |-> o[k]]]) <= 1} :
      \E r \in {log(canLog, canBus, level, event, context, text, oks)} :
        /\ BusEffect(r.bus, r.tx)
        /\ serial' = r.serial
        /\ lastLog' = serialLine(canLog, level, event, context, text)
        /\ UNCHANGED <<now, twaiState, call, recov, pc, loopNow, canLog,
                       heartbeat, body, pins, sample, stepVars, engVars>>

\* after setup(): the logger is bound to the transport or was never given
\* one, and the transport is healthy or has recorded bus-off
InitLog ==
    /\ now = 0
    /\ \E off \in BOOLEAN :
         /\ canBus = [CanBusNew EXCEPT !.installed_ = TRUE, !.busOff_ = off]
         /\ twaiState = IF off THEN "BUS_OFF" ELSE "RUNNING"
    /\ call = NoCall
    /\ lastTx = <<>>
    /\ recov = NoRecov
    /\ failedSends = 0
    /\ pc = "log"
    /\ loopNow = 0
    /\ \E bound \in BOOLEAN : canLog = canLogInit(bound, LOG_ROLE_SPEED)
    /\ heartbeat = HeartbeatNew
    /\ lastLog = NoLog
    /\ serial = <<>>
    /\ body = BodyNew
    /\ pins = PinsNew
    /\ sample = NoSample
    /\ eng = EngNew
    /\ obs = ObsNew
    /\ gauge = GaugeNew
    /\ stepper = StepperNew
    /\ wheel = WheelNew

\* log calls of every level with no text and with texts of 1 to 1786
\* characters (A..Z repeated), between changes of the minimum level
SpecLog ==
    InitLog /\ [][\/ \E level \in {LOG_DEBUG, LOG_INFO, LOG_WARN, LOG_CRITICAL} :
                       SetMinLevel(level)
                  \/ \E level \in {LOG_DEBUG, LOG_INFO, LOG_WARN, LOG_CRITICAL},
                        context \in {16909060},
                        L \in {0, 1, 7, 8, 14, 49, 50, 1786} :
                       LogCall(level, BOOT_START, context,
                               [i \in 1..L |-> 65 + (i % 26)])]_vars

\* ---- hallISR against computeSpeed, statement by statement ----

MaxEdges == 4
MaxIsrTicks == 2

\* noInterrupts() left out
noInterrupts_missing(isr) == isr

\* noInterrupts() of computeSpeed
noInterrupts(isr) == [isr EXCEPT !.enabled = FALSE]

\* a magnet passes the hall sensor: the edge is latched until it is served
\* (pulses are milliseconds apart, no second edge comes before that)
HallEdge ==
    /\ ~eng.isr.pending
    /\ eng.isr.pc = "idle"
    /\ eng.isr.runs + 1 <= MaxEdges
    /\ eng' = [eng EXCEPT !.isr.pending = TRUE]
    /\ UNCHANGED <<busVars, pc, loopNow, canLog, heartbeat, lastLog, serial, body,
                   pins, sample, stepVars, obs, gauge>>

\* hallISR, one statement at a time: entered on a latched edge when
\* interrupts are on, it runs to its end before the loop goes on
HallIsrStep ==
    /\ IF eng.isr.pc = "idle"
       THEN /\ eng.isr.pending /\ eng.isr.enabled
            /\ eng' = [eng EXCEPT !.hallPulseCount = Add32(@, 1),
                                  !.isr.pending = FALSE, !.isr.pc = "stamp",
                                  !.isr.runs = @ + 1,
                                  !.isr.countBy = eng.isr.runs + 1]
       ELSE eng' = [eng EXCEPT !.lastHallPulseUs = eng.us,
                               !.isr.pc = "idle",
                               !.isr.stampBy = eng.isr.runs]
    /\ UNCHANGED <<busVars, pc, loopNow, canLog, heartbeat, lastLog, serial, body,
                   pins, sample, stepVars, obs, gauge>>

\* computeSpeed(millis()), one statement at a time: noInterrupts(), the two
\* copies, interrupts(), and the rest, which works on the copies
ComputeSpeedStep ==
    /\ eng.isr.pc = "idle"
    /\ CASE pc = "main" ->
              /\ eng' = [eng EXCEPT !.isr = noInterrupts(@)]
              /\ loopNow' = millis
              /\ pc' = "read_count"
         [] pc = "read_count" ->
              /\ eng' = [eng EXCEPT !.isr.pulses = eng.hallPulseCount,
                                    !.isr.snapCountBy = eng.isr.countBy]
              /\ pc' = "read_stamp"
              /\ UNCHANGED loopNow
         [] pc = "read_stamp" ->
              /\ eng' = [eng EXCEPT !.isr.lastPulseUs = eng.lastHallPulseUs,
                                    !.isr.snapStampBy = eng.isr.stampBy]
              /\ pc' = "enable"
              /\ UNCHANGED loopNow
         [] pc = "enable" ->
              /\ eng' = [eng EXCEPT !.isr.enabled = TRUE]
              /\ pc' = "rest"
              /\ UNCHANGED loopNow
         [] pc = "rest" ->
              /\ \E r \in {computeSpeed([eng EXCEPT
                                           !.hallPulseCount = eng.isr.pulses,
                                           !.lastHallPulseUs = eng.isr.lastPulseUs],
                                        loopNow)} :
                   eng' = [r EXCEPT !.hallPulseCount = eng.hallPulseCount,
                                    !.lastHallPulseUs = eng.lastHallPulseUs]
              /\ pc' = "main"
              /\ UNCHANGED loopNow
    /\ UNCHANGED <<busVars, canLog, heartbeat, lastLog, serial, body,
                   pins, sample, stepVars, obs, gauge>>

\* 100 ms pass between two statements
IsrTick ==
    /\ eng.isr.ticks + 1 <= MaxIsrTicks
    /\ now' = now + 100
    /\ eng' = [eng EXCEPT !.us = Add32(@, 100000), !.isr.ticks = @ + 1]
    /\ UNCHANGED <<canBus, twaiState, call, lastTx, recov, failedSends, pc, loopNow,
                   canLog, heartbeat, lastLog, serial, body, pins, sample,
                   stepVars, obs, gauge>>

\* the body controller about to call computeSpeed, with the pulse counter
\* at 0 or two pulses before its wrap; odometerMiles, counted in pulses,
\* starts at 0 here
InitIsr ==
    /\ now = 1000
    /\ canBus = [CanBusNew EXCEPT !.installed_ = TRUE]
    /\ twaiState = "RUNNING"
    /\ call = NoCall
    /\ lastTx = <<>>
    /\ recov = NoRecov
    /\ failedSends = 0
    /\ pc = "main"
    /\ loopNow = 0
    /\ canLog = canLogInit(TRUE, LOG_ROLE_BODY)
    /\ heartbeat = heartbeatInit(TRUE, ROLE_BODY)
    /\ lastLog = NoLog
    /\ serial = <<>>
    /\ body = BodyNew
    /\ pins = PinsNew
    /\ sample = NoSample
    /\ stepper = StepperNew
    /\ wheel = WheelNew
    /\ gauge = GaugeNew
    /\ obs = ObsNew
    /\ \E c \in {U32(0), [hi |-> 65535, lo |-> 65534]} :
         eng = [EngNew EXCEPT !.us = U32(1000000), !.prevSpeedMs = 900,
                              !.hallPulseCount = c, !.prevPulseCount = c,
                              !.isr.pulses = c]

SpecIsr ==
    InitIsr /\ [][HallEdge \/ HallIsrStep \/ ComputeSpeedStep \/ IsrTick]_vars

\* ---- ServoGauge::update, the needle smoother ----

MaxServoMs == 3500

\* exp(-dt / tau) in units of 10^-9, for dt / tau up to 2: the power series
\* to the term of order 16, each term cut to a whole number of units
expNeg(dt, tau) ==
    LET term[k \in 0..16] == IF k = 0 THEN 10 ^ 9
                             ELSE (term[k - 1] \div (tau * k)) * dt
        sum[k \in 0..16] == IF k = 0 THEN term[0]
                            ELSE sum[k - 1] + (IF k % 2 = 0 THEN term[k] ELSE 0 - term[k])
    IN sum[16]

\* ServoGauge::update that moves by one tenth of the gap on every call
servoGaugeUpdate_perCall(s, ms) ==
    IF ~s.initialized_ THEN s
    ELSE LET sm == s.smoothedAngle_
                     + (((s.targetAngle_ * 10 ^ 6) - s.smoothedAngle_) \div 10)
         IN [s EXCEPT !.lastUpdateMs_ = ms, !.smoothedAngle_ = sm,
                      !.currentAngle_ = constrain((sm + 500000) \div 10 ^ 6, 0, 180)]

\* ServoGauge::update at millis() = ms. alpha is kept in millionths; the
\* product alpha * (target - smoothed) is formed from the thousands and the
\* units of both factors to stay within 32 bits.
servoGaugeUpdate(s, ms) ==
    IF ~s.initialized_ THEN s
    ELSE LET elapsed == ms - s.lastUpdateMs_
             dt == IF elapsed > 500 THEN 500 ELSE elapsed
             alpha == (10 ^ 9 - expNeg(dt, s.smoothingTau_)) \div 1000
             diff == (s.targetAngle_ * 10 ^ 6) - s.smoothedAngle_
             dh == diff \div 1000
             dl == diff % 1000
             ah == alpha \div 1000
             al == alpha % 1000
             sm == s.smoothedAngle_ + (dh * ah) + (((dh * al) + (dl * ah)) \div 1000)
         IN [s EXCEPT !.lastUpdateMs_ = ms, !.smoothedAngle_ = sm,
                      !.currentAngle_ = constrain((sm + 500000) \div 10 ^ 6, 0, 180)]

\* servo.update() called one period after the previous call
ServoUpdate ==
    /\ pc = "servo"
    /\ now + gauge.servo.dt <= gauge.servo.t0 + MaxServoMs
    /\ now' = now + gauge.servo.dt
    /\ \E u \in {servoGaugeUpdate(gauge.servo, now + gauge.servo.dt)} :
         gauge' = [gauge EXCEPT !.servo = u]
    /\ UNCHANGED <<canBus, twaiState, call, lastTx, recov, failedSends, pc, loopNow,
                   canLog, heartbeat, lastLog, serial, body, pins, sample,
                   stepVars, eng, obs>>

\* a servo after init(), setSmoothing(tau) with the time constants the
\* nodes use (0.3, 0.8 and 1.0 s), writeDirect(from) and a step of the target
\* by setAngle(to), with update() about to be called every dt ms
InitServo ==
    /\ now = SELF_TEST_MS
    /\ canBus = [CanBusNew EXCEPT !.installed_ = TRUE]
    /\ twaiState = "RUNNING"
    /\ call = NoCall
    /\ lastTx = <<>>
    /\ recov = NoRecov
    /\ failedSends = 0
    /\ pc = "servo"
    /\ loopNow = 0
    /\ canLog = canLogInit(TRUE, LOG_ROLE_FUEL)
    /\ heartbeat = HeartbeatNew
    /\ lastLog = NoLog
    /\ serial = <<>>
    /\ body = BodyNew
    /\ pins = PinsNew
    /\ sample = NoSample
    /\ eng = EngNew
    /\ obs = ObsNew
    /\ stepper = StepperNew
    /\ wheel = WheelNew
    /\ \E tau \in {300, 800, 1000}, from \in {0, 135}, to \in {0, 45, 180},
          dt \in {10, 20, 50, 100, 250, 500} :
         /\ from # to
         /\ gauge = [GaugeNew EXCEPT !.servo =
                       [targetAngle_ |-> to, currentAngle_ |-> from,
                        smoothingTau_ |-> tau, smoothedAngle_ |-> from * 10 ^ 6,
                        lastUpdateMs_ |-> SELF_TEST_MS, initialized_ |-> TRUE,
                        t0 |-> SELF_TEST_MS, from |-> from, dt |-> dt]]

SpecServo == InitServo /\ [][ServoUpdate]_vars

\* ---- the Leaf decoders on an AMPS and on a TEMP gauge ----

\* an AMPS or a TEMP gauge when setup() has returned
InitDecode ==
    /\ now = SELF_TEST_MS
    /\ canBus = [CanBusNew EXCEPT !.installed_ = TRUE]
    /\ twaiState = "RUNNING"
    /\ call = NoCall
    /\ lastTx = <<>>
    /\ recov = NoRecov
    /\ failedSends = 0
    /\ pc = "gauge"
    /\ loopNow = 0
    /\ lastLog = NoLog
    /\ serial = <<>>
    /\ body = BodyNew
    /\ pins = PinsNew
    /\ sample = NoSample
    /\ eng = EngNew
    /\ obs = ObsNew
    /\ stepper = StepperNew
    /\ wheel = WheelNew
    /\ \E role \in {LOG_ROLE_AMPS, LOG_ROLE_TEMP} :
         /\ canLog = canLogInit(TRUE, role)
         /\ heartbeat = heartbeatInit(TRUE, IF role = LOG_ROLE_AMPS
                                    THEN <<65, 77, 80, 83, 32>>      \* "AMPS "
                                    ELSE <<84, 69, 77, 80, 32>>)     \* "TEMP "
         /\ gauge = [GaugeNew EXCEPT !.role = role, !.phase = "idle"]

\* the gauge loop fed with battery status frames of every 11-bit current
\* pattern (with the five low bits of byte 3 all clear and all set) and with
\* battery temperature frames of every byte 0; one such frame per run
SpecDecode ==
    InitDecode /\
    [][\/ GaugeLoopStart(2600)
       \/ GaugeReceive(NoFrame)
       \/ /\ gauge.lastId = NoFrame.id
          /\ \E f \in {[id |-> CAN_ID_LEAF_BATTERY_STATUS, len |-> 8,
                        data |-> <<0, 0, hi, (32 * t) + low, 50, 0, 0, 0>>] :
                         hi \in 0..255, t \in 0..7, low \in {0, 31}}
                      \cup {[id |-> CAN_ID_LEAF_BATTERY_TEMP, len |-> 8,
                             data |-> <<b, 0, 0, 0, 0, 0, 0, 0>>] : b \in 0..255} :
               GaugeReceive(f)
       \/ GaugeLoopEnd]_vars

\* ---- the LOG frame of every role, level, context and fragment count ----

\* a logger of any role bound to a healthy transport. A uint32_t context at
\* or above 2^31 is written as its value minus 2^32, the number with the same
\* 32 bits: ByteOf (floor division) yields the same bytes for both.
InitRoundTrip ==
    /\ now = 0
    /\ canBus = [CanBusNew EXCEPT !.installed_ = TRUE]
    /\ twaiState = "RUNNING"
    /\ call = NoCall
    /\ lastTx = <<>>
    /\ recov = NoRecov
    /\ failedSends = 0
    /\ pc = "log"
    /\ loopNow = 0
    /\ \E role \in 0..6 : canLog = canLogInit(TRUE, role)
    /\ heartbeat = HeartbeatNew
    /\ lastLog = NoLog
    /\ serial = <<>>
    /\ body = BodyNew
    /\ pins = PinsNew
    /\ sample = NoSample
    /\ eng = EngNew
    /\ obs = ObsNew
    /\ gauge = GaugeNew
    /\ stepper = StepperNew
    /\ wheel = WheelNew

\* the first log call after setup(): levels LOG_DEBUG..LOG_CRITICAL, event
\* codes at both ends and in the middle of the byte, contexts 0, 1,
\* 0x01020304, 0x7FFFFFFF, 0x80000000 and 0xFFFFFFFF, texts that need 0 to 7
\* LOG_TEXT frames
SpecRoundTrip ==
    InitRoundTrip /\
    [][/\ lastLog = NoLog
       /\ \E level \in 0..4, event \in {0, 1, 128, 255},
             context \in {0, 1, 16909060, 2147483647, 0 - 2147483647 - 1, 0 - 1},
             n \in 0..LOG_TEXT_MAX_FRAMES :
            LogCall(level, event, context,
                    [i \in 1..(IF n = 0 THEN 0 ELSE (7 * n) - 6) |-> 65 + (i % 26)])]_vars

Init == InitBus /\ InitNode /\ InitWheel

\* the transport under arbitrary calls and arbitrary controller status
Spec == Init /\ [][Next]_vars

\* the loop calls checkErrors on every iteration, time passes, and the
\* controller completes the recoveries it is asked to start
SpecFair ==
    /\ Init /\ [][NextDrv]_vars
    /\ WF_vars(CheckErrors)
    /\ WF_vars(\E d \in TimeSteps : Tick(d))
    /\ WF_vars(RecoveryComplete)

\* the body controller on a controller that may report any status
SpecNode ==
    Init /\
    [][(
        \/ SetupBootLog
        \/ \E ok \in BOOLEAN : SetupCanInit(ok)
        \/ SetupSelfTestStart
        \/ SetupSelfTestPass
        \/ SetupBootComplete
        \/ LoopHeartbeat
        \/ LoopCheckErrors
        \/ LoopReceive
        \/ LoopSelfTestPass
        \/ LoopState
        \/ LoopGear
        \/ LoopOdo
        \/ LoopWatchdog
        \/ \E d \in {2500, 3500} : LoopDelay(d)
        \/ \E s \in {"RUNNING", "BUS_OFF"} : TwaiStatus(s)
    )]_vars

\* the heartbeat on a transport that may fail and recover
SpecHb ==
    InitHb /\
    [][(
        \/ \E name \in {ROLE_BODY, <<71, 80, 83>>, <<83, 80, 69, 69, 68>>} : HbInit(name)
        \/ HbUpdate
        \/ \E d \in {400, 700} : HbTick(d)
        \/ \E s \in {"RUNNING", "BUS_OFF"} : TwaiStatus(s)
        \/ CheckErrors
    )]_vars

\* a servo gauge on a healthy controller
\* the frames a gauge finds in its receive queue are of full or of zero
\* length: self-test commands, battery temperature, precise SOC, body state
\* and an identifier no node handles
SpecGauge ==
    InitGauge /\
    [][(
        \/ \E d \in {800, 2600} : GaugeLoopStart(d)
        \/ \E f \in {NoFrame,
                     [id |-> CAN_ID_SELF_TEST, len |-> 8,
                      data |-> <<SELF_TEST_TARGET_ALL, 0, 0, 0, 0, 0, 0, 0>>],
                     [id |-> CAN_ID_SELF_TEST, len |-> 8,
                      data |-> <<LOG_ROLE_FUEL, 0, 0, 0, 0, 0, 0, 0>>],
                     [id |-> CAN_ID_SELF_TEST, len |-> 8,
                      data |-> <<LOG_ROLE_TEMP, 0, 0, 0, 0, 0, 0, 0>>],
                     [id |-> CAN_ID_LEAF_BATTERY_TEMP, len |-> 8,
                      data |-> <<65, 0, 0, 0, 0, 0, 0, 0>>],
                     [id |-> CAN_ID_LEAF_SOC_PRECISE, len |-> 8,
                      data |-> <<31, 64, 0, 0, 0, 0, 0, 0>>],
                     [id |-> CAN_ID_BODY_STATE, len |-> 8,
                      data |-> <<BODY_FLAG_HAZARD, 0, 0, 0, 0, 0, 0, 0>>],
                     [id |-> 291, len |-> 8, data |-> <<255, 255, 0, 0, 0, 0, 0, 0>>],
                     [id |-> CAN_ID_SELF_TEST, len |-> 0, data |-> <<>>],
                     [id |-> CAN_ID_LEAF_BATTERY_TEMP, len |-> 0, data |-> <<>>]} :
              GaugeReceive(f)
        \/ GaugeLoopEnd
    )]_vars

\* the speedometer from its homing on, on a healthy controller
\* the frames of the loop: body speed (45.0 mph), gear, a self-test command
SpecSpeedo ==
    InitSpeedo /\
    [][(
        \/ SpeedoHoming
        \/ SpeedoSetupEnd
        \/ \E d \in {300, 1200},
              f \in {NoFrame,
                     [id |-> CAN_ID_BODY_SPEED, len |-> 8,
                      data |-> <<0, 0, 0, 0, 0, 128, 70, 64>>],
                     [id |-> CAN_ID_BODY_GEAR, len |-> 8,
                      data |-> <<GEAR_2, 0, 0, 0, 0, 0, 0, 0>>],
                     [id |-> CAN_ID_SELF_TEST, len |-> 8,
                      data |-> <<SELF_TEST_TARGET_ALL, 0, 0, 0, 0, 0, 0, 0>>]} :
              /\ now + d <= obs.t0 + MaxSpeedoMs
              /\ SpeedoLoop(f, d)
    )]_vars

\* updateStepperPosition from every pair of tracked and eased position
SpecPath == InitPath /\ [][UpdateStepperPosition]_vars

\* the speedometer needle under speed frames that arrive in mid-transition
\* setup, then loop iterations 900 ms apart that find nothing or a body
\* speed frame (0.0, 31.0, 62.0 or 90.0 mph) in the receive queue
SpecRetarget ==
    InitRetarget /\
    [][(
        \/ SpeedoHoming
        \/ SpeedoSetupEnd
        \/ \E f \in {NoFrame} \cup
                    {[id |-> CAN_ID_BODY_SPEED, len |-> 8, data |-> b] :
                       b \in {ZeroPayload,
                              <<0, 0, 0, 0, 0, 0, 63, 64>>,
                              <<0, 0, 0, 0, 0, 0, 79, 64>>,
                              <<0, 0, 0, 0, 0, 128, 86, 64>>}} :
              /\ now + 900 <= obs.t0 + MaxRetargetMs
              /\ SpeedoLoop(f, 900)
    )]_vars

\* speed, gear and odometer under pulses arriving at any time
SpecEngine ==
    InitEngine /\
    [][(
        \/ \E n \in {1, 2} : HallPulses(n)
        \/ \E rpm \in {1200, 2064, -1656} : EngReceive(rpm)
        \/ EngState
        \/ EngGear
        \/ EngOdo
        \/ \E d \in {100, 400} : EngTick(d)
    )]_vars

\* the hazard state machine under turn inputs that change at any time
SpecBody ==
    InitBody /\
    [][(
        \/ \E side \in {"left", "right"} : PinChange(side)
        \/ BodyStateTick
        \/ \E d \in {20, 80} : BodyTick(d)
    )]_vars

\* a freshly constructed StepperWheel on a wheel standing anywhere
InitStepper ==
    /\ InitBus /\ InitNode
    /\ stepper = StepperNew
    /\ \E p \in {0, 1500}, ms \in {100, 2040}, mw \in {0, 40} :
         wheel = [WheelNew EXCEPT !.pos = p, !.markerStart = ms, !.markerWidth = mw]

SpecStepper ==
    InitStepper /\
    [][(
        \/ CalibrateHome
        \/ \E mph \in {0, 45, 95} : MoveToMPH(mph)
        \/ Update
        \/ \E d \in {300, 1200} : StepperTick(d)
    )]_vars

\* the wheel under commands for 5 and 4 mph (900 ms into the move from the
\* home centre to 5 mph the needle stands one step from the position of
\* 4 mph) and for 35 mph, the first speed more than half a turn from the
\* home centre
SpecNeedle ==
    InitStepper /\
    [][(
        \/ CalibrateHome
        \/ \E mph \in {4, 5, 35} : MoveToMPH(mph)
        \/ Update
        \/ \E d \in {300, 1200} : StepperTick(d)
    )]_vars

\* ========================================================================
\* Bus transport: claims
\* ========================================================================

\* a step that is a call of one of the transport operations in ops
IsCall(ops) == call'.seq # call.seq /\ call'.op \in ops

\* C2: safeTransmit partitions identifiers exactly at 0x700..0x73F. Inside
\* the range the frame goes on to transmit (the controller is invoked iff the
\* transport is installed and not faulted) and the call returns what the
\* send returned; outside the range the call returns false, the controller
\* is not invoked and the transport state is unchanged.
C2_SafeTransmitPartition ==
    [][IsCall({"safeTransmit"}) =>
        IF call'.id >= 1792 /\ call'.id <= 1855
        THEN /\ call'.invoked = (canBus.installed_ /\ ~canBus.busOff_)
             /\ call'.invoked => (Len(lastTx') = 1 /\ lastTx'[1].id = call'.id)
             /\ call'.ret = (call'.invoked /\ lastTx'[1].ok)
        ELSE /\ call'.ret = FALSE
             /\ ~call'.invoked
             /\ lastTx' = <<>>
             /\ canBus' = canBus
             /\ twaiState' = twaiState
             /\ failedSends' = failedSends]_vars

\* C2 witness: 0x740 was rejected by a healthy transport on a running
\* controller (a plain transmit would have been served)
C2_Witness ==
    /\ call.op = "safeTransmit" /\ call.id = 1856 /\ ~call.ret
    /\ canBus.installed_ /\ ~canBus.busOff_ /\ twaiState = "RUNNING"

\* C3: once checkErrors has seen the controller bus-off the transport is
\* faulted; while it is, transmit, safeTransmit and receive return false
\* without invoking the controller; only checkErrors clears the flag.
C3_FaultedFailsFast ==
    [][/\ (IsCall({"checkErrors"}) /\ canBus.installed_ /\ twaiState = "BUS_OFF")
            => canBus'.busOff_
       /\ (IsCall({"transmit", "safeTransmit", "receive"}) /\ canBus.busOff_)
            => (call'.ret = FALSE /\ ~call'.invoked /\ lastTx' = <<>>)
       /\ (canBus.busOff_ /\ ~canBus'.busOff_) => IsCall({"checkErrors"})]_vars

\* C3 witness: a transmit failed fast on a faulted transport although the
\* controller was running again
C3_Witness ==
    /\ call.op = "transmit" /\ call.id = 1792 /\ ~call.ret /\ ~call.invoked
    /\ canBus.busOff_ /\ twaiState = "RUNNING"

\* C4: bus-fault recovery succeeds: with checkErrors called again and again
\* and the controller completing every recovery, a faulted transport
\* eventually clears its fault flag.
C4_RecoverySucceeds == canBus.busOff_ ~> ~canBus.busOff_

\* C5: recovery is rate-limited: checkErrors initiates a recovery only when
\* the controller reports bus-off, and more than 500 ms after the previous
\* initiation.
C5_RecoveryRateLimited ==
    [][recov' # recov =>
        /\ IsCall({"checkErrors"})
        /\ twaiState = "BUS_OFF"
        /\ recov.lastAt >= 0 => now - recov.lastAt > 500]_vars

\* C5 witness: a second recovery has been initiated
C5_Witness == recov.gap > 0 /\ call.op = "checkErrors" /\ call.ret

\* C6: a transmit makes at most one send attempt, and the cumulative TX
\* error count equals the number of send attempts the controller failed.
C6_TxErrorCountIsFailedSends ==
    /\ Len(lastTx) <= 1
    /\ canBus.txErrorCount_ = failedSends

\* ========================================================================
\* Node, body controller and stepper: claims
\* ========================================================================

\* C1: every frame a node hands to the bus controller has an identifier in
\* 0x700..0x73F: heartbeat, log, log-text and the body broadcasts all go
\* through safeTransmit with identifiers of the custom range.
C1_OnlyCustomIdsOnBus ==
    \A i \in DOMAIN lastTx : lastTx[i].id >= 1792 /\ lastTx[i].id <= 1855

\* C1 witness: after traffic was received and a heartbeat was sent, one loop
\* iteration handed a key log frame, the state frame and the speed frame to
\* the controller
C1_Witness ==
    /\ Len(lastTx) = 3
    /\ lastTx[1].id = CAN_ID_LOG
    /\ lastTx[2].id = CAN_ID_BODY_STATE
    /\ lastTx[3].id = CAN_ID_BODY_SPEED
    /\ body.canMessageReceived
    /\ heartbeat.uptimeCounter_ > 0

\* C7: hazard truth table against the real switching times: when both turn
\* inputs are active in a sample and went on within 50 ms of each other, the
\* flags carry HAZARD and neither LEFT_TURN nor RIGHT_TURN; when they went on
\* more than 50 ms apart, the flags carry LEFT_TURN and RIGHT_TURN and not
\* HAZARD.
C7_HazardTruthTable ==
    (sample.valid /\ sample.left /\ sample.right) =>
        IF Abs(sample.leftRoseAt - sample.rightRoseAt) <= 50
        THEN /\ HasFlag(sample.flags, BODY_FLAG_HAZARD)
             /\ ~HasFlag(sample.flags, BODY_FLAG_LEFT_TURN)
             /\ ~HasFlag(sample.flags, BODY_FLAG_RIGHT_TURN)
        ELSE /\ ~HasFlag(sample.flags, BODY_FLAG_HAZARD)
             /\ HasFlag(sample.flags, BODY_FLAG_LEFT_TURN)
             /\ HasFlag(sample.flags, BODY_FLAG_RIGHT_TURN)

\* C8: in every flags byte produced, HAZARD implies LEFT_TURN and RIGHT_TURN
\* clear and both turn inputs active in that sample; LEFT_TURN (RIGHT_TURN)
\* implies the left (right) input active in that sample; the BODY_STATE frame
\* carries that byte.
C8_HazardSupersedesTurns ==
    /\ sample.valid =>
         /\ HasFlag(sample.flags, BODY_FLAG_HAZARD) =>
              /\ ~HasFlag(sample.flags, BODY_FLAG_LEFT_TURN)
              /\ ~HasFlag(sample.flags, BODY_FLAG_RIGHT_TURN)
              /\ sample.left /\ sample.right
         /\ HasFlag(sample.flags, BODY_FLAG_LEFT_TURN) => sample.left
         /\ HasFlag(sample.flags, BODY_FLAG_RIGHT_TURN) => sample.right
         /\ sample.flags = body.bodyFlags
    /\ \A i \in DOMAIN lastTx :
         lastTx[i].id = CAN_ID_BODY_STATE =>
             (sample.valid /\ lastTx[i].data[1] = sample.flags)

\* C8 witness: a BODY_STATE frame with HAZARD went out for a sample in which
\* both inputs were active, after an earlier sample without hazard
C8_Witness ==
    /\ sample.valid /\ sample.left /\ sample.right
    /\ HasFlag(sample.flags, BODY_FLAG_HAZARD)
    /\ body.lastStateMs >= 200
    /\ \E i \in DOMAIN lastTx :
         lastTx[i].id = CAN_ID_BODY_STATE /\ lastTx[i].data[1] = sample.flags

\* C9: while calibrateHome has not returned true, moveToMPH and update leave
\* the stepper object and the wheel where they are and command no motor
\* step; a transition in progress implies a calibrated wheel, and the wheel
\* is calibrated exactly when calibrateHome has returned true.
C9_CalibrationPrecondition ==
    /\ [](stepper.moving_ => stepper.calibrated_)
    /\ [](stepper.calibrated_ = wheel.homed)
    /\ [][(/\ wheel'.seq # wheel.seq
           /\ wheel'.op \in {"moveToMPH", "update"}
           /\ ~wheel.homed)
          => (stepper' = stepper /\ wheel'.pos = wheel.pos /\ wheel'.steps = 0)]_vars

\* C9 witness: homing failed on a wheel whose sensor never sees the marker,
\* and a later moveToMPH was dropped
C9_Witness ==
    /\ wheel.op = "moveToMPH" /\ ~wheel.homed /\ wheel.markerWidth = 0
    /\ stepper.homeStartPos_ = -1
    /\ ~stepper.moving_ /\ ~stepper.calibrated_
    /\ now > 0

\* C10: no silent loss of log events: a log call at or above the minimum
\* level either hands its LOG frame to the controller successfully or writes
\* the event, with the same role, level, event, context and text, to the
\* local fallback sink.
C10_NoSilentLogLoss ==
    (lastLog # NoLog /\ lastLog.level >= canLog.minLevel_) =>
        \/ \E i \in DOMAIN lastTx :
             /\ lastTx[i].ok
             /\ [id |-> lastTx[i].id, data |-> lastTx[i].data]
                  = logFrame(canLog, lastLog.level, lastLog.event, lastLog.context,
                             textFrameCount(lastLog.text))
        \/ \E j \in DOMAIN serial : serial[j] = lastLog

\* ========================================================================
\* Speed, gear and odometer: claims
\* ========================================================================

\* C11: the odometer never goes down. Over any interleaving of hall
\* interrupts and computeSpeed samples, the wrap of the 32-bit pulse counter
\* included, no step lowers the accumulated distance, the whole miles
\* broadcast on 0x713, or the value kept in NVS.
C11_OdometerMonotonic ==
    [][/\ eng'.odometerMiles >= eng.odometerMiles
       /\ WholeMiles(eng'.odometerMiles) >= WholeMiles(eng.odometerMiles)
       /\ eng'.nvsMiles >= eng.nvsMiles
       /\ body'.lastOdoMs # body.lastOdoMs
          => /\ lastTx'[1].id = CAN_ID_BODY_ODOMETER
             /\ lastTx'[1].data[1] + 256 * lastTx'[1].data[2]
                  = WholeMiles(eng'.odometerMiles)]_vars

\* C11 witness: a sample that took in pulses counted across the wrap of the
\* pulse counter, and carried the odometer over a whole mile
C11_Witness ==
    /\ obs.sp.valid
    /\ obs.sp.wrapped
    /\ obs.sp.pulseDelta > 0
    /\ WholeMiles(eng.odometerMiles) > WholeMiles(obs.sp.odoBefore)

\* C12: the odometer is written once per threshold crossing. A write happens
\* only when the distance since the last write has reached the threshold,
\* the 1 Hz block that finds it reached does write, the write stores the
\* odometer and resets the accumulator, the stored value changes in no other
\* step, and two consecutive stored values are at least the threshold apart.
C12_PersistOncePerCrossing ==
    [][/\ obs'.writes # obs.writes
          => /\ eng.odometerSinceLastPersist >= ODO_PERSIST_PULSES
             /\ eng'.odometerSinceLastPersist = 0
             /\ eng'.nvsMiles = eng.odometerMiles
             /\ eng'.nvsMiles - eng.nvsMiles >= ODO_PERSIST_PULSES
       /\ obs'.writes = obs.writes => eng'.nvsMiles = eng.nvsMiles
       /\ body'.lastOdoMs # body.lastOdoMs
          /\ eng.odometerSinceLastPersist >= ODO_PERSIST_PULSES
          => obs'.writes = obs.writes + 1]_vars

\* C12 witness: a write has happened, and pulses have been counted since
C12_Witness ==
    /\ obs.writes = 1
    /\ eng.odometerSinceLastPersist > 0
    /\ eng.nvsMiles > ODO_PERSIST_PULSES

\* C13: in every reachable state the distance since the last durable write,
\* the odometer minus the stored value, which is the accumulator, does not
\* exceed the threshold (half a mile is 2852.3 pulses).
C13_UnpersistedBounded ==
    /\ eng.odometerMiles - eng.nvsMiles = eng.odometerSinceLastPersist
    /\ eng.odometerSinceLastPersist < ODO_PERSIST_PULSES

\* C14: at a computeSpeed sample without new pulses the speed becomes zero if
\* the last pulse is more than 500 ms old or no pulse was ever seen, and
\* keeps its value otherwise; a sample with new pulses over a positive time
\* sets it to pulses per elapsed time; it is never negative.
C14_SpeedSample ==
    obs.sp.valid =>
        /\ obs.sp.pulseDelta = 0
           => obs.sp.after = IF obs.sp.sincePulseMs < 0 \/ obs.sp.sincePulseMs > 500
                             THEN ZeroSpeed ELSE obs.sp.before
        /\ obs.sp.pulseDelta > 0 /\ obs.sp.timeDeltaMs > 0
           => obs.sp.after = [p |-> obs.sp.pulseDelta, t |-> obs.sp.timeDeltaMs]
        /\ obs.sp.after.p >= 0 /\ obs.sp.after.t > 0

\* C15: every BODY_GEAR frame whose reverse byte is 1 carries NEUTRAL, and a
\* run of estimateGear with the reverse flag set leaves NEUTRAL, whatever
\* the motor rpm and the speed.
C15_ReverseIsNeutral ==
    /\ [](\A i \in DOMAIN lastTx :
            lastTx[i].id = CAN_ID_BODY_GEAR /\ lastTx[i].data[2] = 1
            => lastTx[i].data[1] = GEAR_NEUTRAL)
    /\ [][body'.lastGearMs # body.lastGearMs
          /\ HasFlag(body.bodyFlags, BODY_FLAG_REVERSE)
          => eng'.currentGear = GEAR_NEUTRAL]_vars

\* C15 witness: a gear frame with the reverse byte set went out while motor
\* rpm and speed were those of third gear
C15_Witness ==
    /\ Len(lastTx) = 1
    /\ lastTx[1].id = CAN_ID_BODY_GEAR
    /\ lastTx[1].data[2] = 1
    /\ inBand(body.motorRpm, eng.speedMph, GEAR_RATIO_3)
    /\ eng.speedMph.p * 631059 >= 2000 * eng.speedMph.t

\* C16: with the reverse flag clear, estimateGear leaves NEUTRAL when the
\* speed is under 2 mph or |rpm| under 100; otherwise the first gear whose
\* ratio r has |observed - r| / r within the tolerance, the observed ratio
\* being |rpm| over the driveshaft rpm (60000 p / t for p pulses in t ms);
\* and UNKNOWN exactly when no gear's band holds the observed ratio.
C16_GearEstimate ==
    [][body'.lastGearMs # body.lastGearMs
       /\ ~HasFlag(body.bodyFlags, BODY_FLAG_REVERSE)
       => LET sp == eng.speedMph
              rpm == IF body.motorRpm < 0 THEN -body.motorRpm ELSE body.motorRpm
              g == eng'.currentGear
              ratios == <<GEAR_RATIO_1, GEAR_RATIO_2, GEAR_RATIO_3, GEAR_RATIO_4>>
              \* 100 * 60000 * p * |observed - r/100| <= 60000 * p * tolerance * r/100
              within(i) ==
                  LET lhs == 100 * rpm * sp.t - 60000 * sp.p * ratios[i]
                  IN (IF lhs < 0 THEN -lhs ELSE lhs)
                       <= 600 * GEAR_TOLERANCE * sp.p * ratios[i]
          IN IF sp.p * 631059 < 2000 * sp.t \/ rpm < 100
             THEN g = GEAR_NEUTRAL
             ELSE /\ g \in {GEAR_1, GEAR_2, GEAR_3, GEAR_4, GEAR_UNKNOWN}
                  /\ g # GEAR_UNKNOWN
                     => within(g) /\ \A j \in 1..(g - 1) : ~within(j)
                  /\ g = GEAR_UNKNOWN <=> \A j \in 1..4 : ~within(j)]_vars

\* C16 witness: third gear found from a negative motor rpm
C16_Witness ==
    /\ Len(lastTx) = 1
    /\ lastTx[1].id = CAN_ID_BODY_GEAR
    /\ lastTx[1].data = <<GEAR_3, 0, 0, 0, 0, 0, 0, 0>>
    /\ eng.currentGear = GEAR_3
    /\ body.motorRpm < 0

\* ========================================================================
\* Heartbeat: claims
\* ========================================================================

\* C17: heartbeats are paced and not retried. Two consecutive send attempts
\* are at least 1000 ms apart, so an interval sees at most one attempt, and
\* after an attempt that failed (refused by the controller, or not handed to
\* it on a faulted transport) the next attempt comes an interval later with
\* the next uptime value: the failed heartbeat is not sent again.
C17_HeartbeatPacing ==
    /\ [](obs.hbGap = -1 \/ obs.hbGap >= HEARTBEAT_INTERVAL_MS)
    /\ [][obs'.hbCount = obs.hbCount + 1 /\ obs.hbFailed
          => /\ millis - obs.hbLastAt >= HEARTBEAT_INTERVAL_MS
             /\ obs'.hbByte # obs.hbByte]_vars

\* C17 witness: an attempt failed, and the next attempt, at least an
\* interval later, was accepted
C17_Witness ==
    /\ failedSends >= 1
    /\ obs.hbGap >= HEARTBEAT_INTERVAL_MS
    /\ ~obs.hbFailed
    /\ Len(lastTx) = 1
    /\ lastTx[1].id = CAN_ID_HEARTBEAT
    /\ lastTx[1].ok

\* C18: the k-th send attempt since init carries the uptime byte
\* (k - 1) mod 256; the counter goes up by one, 255 to 0, with every
\* attempt whether or not the transmit succeeded, and no other step but
\* init changes it.
C18_UptimeCounter ==
    /\ [](/\ heartbeat.uptimeCounter_ = obs.hbCount % 256
          /\ obs.hbCount > 0 => obs.hbByte = (obs.hbCount - 1) % 256
          /\ \A i \in DOMAIN lastTx :
               lastTx[i].id = CAN_ID_HEARTBEAT
               => lastTx[i].data[6] = (obs.hbCount - 1) % 256)
    /\ [][heartbeat'.uptimeCounter_ # heartbeat.uptimeCounter_
          => \/ /\ obs'.hbCount = obs.hbCount + 1
                /\ heartbeat'.uptimeCounter_ = (heartbeat.uptimeCounter_ + 1) % 256
             \/ ~heartbeat.canBus_]_vars

\* C18 witness: the counter has wrapped, after an attempt that failed
C18_Witness ==
    /\ obs.hbCount = 257
    /\ heartbeat.uptimeCounter_ = 1
    /\ obs.hbByte = 0
    /\ failedSends >= 1

\* C19: every heartbeat frame has identifier 0x700 and eight bytes: the role
\* name given to init in bytes 0..4, short names padded on the right with
\* spaces, the uptime counter in byte 5, the error flags in byte 6, zero in
\* byte 7.
C19_HeartbeatLayout ==
    \A i \in DOMAIN lastTx :
        lastTx[i].id = CAN_ID_HEARTBEAT =>
            /\ Len(lastTx[i].data) = 8
            /\ \A k \in 1..HB_ROLE_LEN :
                 lastTx[i].data[k] = IF k <= Len(obs.hbName) THEN obs.hbName[k] ELSE 32
            /\ lastTx[i].data[6] = (heartbeat.uptimeCounter_ - 1) % 256
            /\ lastTx[i].data[7] = heartbeat.errorFlags_
            /\ lastTx[i].data[8] = 0

\* ========================================================================
\* Silence watchdog: claims
\* ========================================================================

\* C20: bus silence is detected whenever it occurs. When a loop iteration
\* ends and no frame has been received for more than the 5 s window (since
\* the last received frame, or since boot if none was ever received), the
\* node is in silence mode.
C20_SilenceDetected ==
    pc = "delay"
    /\ millis - (IF obs.lastRxAt < 0 THEN 0 ELSE obs.lastRxAt) > CAN_SILENCE_TIMEOUT_MS
    => body.canSilenceMode

\* ------------------------------------------------------------------------
\* C21: silence mode clears by itself. When a loop iteration of a gauge
\* ends and a frame has been received, the node is not in silence mode and
\* the blue pulse is off; the blue pulse is on exactly in silence mode after
\* the watchdog ran; every entry into silence mode logs CAN_SILENCE once,
\* every exit logs BUS_RECOVERED once, no other step logs either, and the
\* two events alternate starting with CAN_SILENCE.
C21_SilenceClears ==
    /\ [](gauge.phase = "idle" /\ gauge.canMessageReceived
            => ~gauge.canSilenceMode /\ ~gauge.led.bluePulse_)
    /\ [](gauge.phase = "idle" => gauge.led.bluePulse_ = gauge.canSilenceMode)
    /\ [](\A i \in DOMAIN gauge.events :
            gauge.events[i] = IF i % 2 = 1 THEN CAN_SILENCE ELSE BUS_RECOVERED)
    /\ [][((~gauge.canSilenceMode /\ gauge'.canSilenceMode)
             <=> (gauge'.events = Append(gauge.events, CAN_SILENCE)
                  /\ lastLog'.event = CAN_SILENCE /\ lastLog'.level = LOG_WARN
                  /\ Len(lastTx') = 1))
           /\ ((gauge.canSilenceMode /\ ~gauge'.canSilenceMode)
                <=> (gauge'.events = Append(gauge.events, BUS_RECOVERED)
                     /\ lastLog'.event = BUS_RECOVERED /\ lastLog'.level = LOG_INFO
                     /\ Len(lastTx') = 1))
           /\ (gauge'.canSilenceMode = gauge.canSilenceMode
                => (gauge'.events = gauge.events
                    /\ lastLog'.event \notin {CAN_SILENCE, BUS_RECOVERED}))]_vars

\* a gauge that fell silent and recovered: its iteration ended with a frame
\* received after CAN_SILENCE and BUS_RECOVERED were logged
C21_Witness ==
    /\ gauge.phase = "idle"
    /\ gauge.canMessageReceived
    /\ gauge.events = <<CAN_SILENCE, BUS_RECOVERED>>
    /\ lastLog.event = BUS_RECOVERED

C29_LengthValidated ==
    [][gauge.phase = "rx" /\ gauge'.phase = "rx" /\ gauge'.lastLen < 8
        => /\ gauge'.gaugeValue = gauge.gaugeValue
           /\ gauge'.lastGaugeUpdateMs = gauge.lastGaugeUpdateMs
           /\ gauge'.lastBodyFlags = gauge.lastBodyFlags
           /\ gauge'.led = gauge.led
           /\ gauge'.selfTests = gauge.selfTests
           /\ lastTx' = <<>>]_vars

\* ------------------------------------------------------------------------
\* C30: unknown identifiers are silently ignored. Dispatching a frame whose
\* identifier the gauge has no handler for (for its role) sets the 'frame
\* received' flag and nothing else of the node: gauge value, time stamps,
\* body flags, animation and LED ring state, servo target, log, heartbeat
\* and transport stay as they were, and nothing is transmitted or printed.
C30_UnknownIgnored ==
    [][LET handled == {CAN_ID_SELF_TEST, CAN_ID_BODY_STATE, CAN_ID_GPS_AMBIENT_LIGHT}
                      \cup (IF gauge.role = LOG_ROLE_FUEL
                            THEN {CAN_ID_LEAF_SOC_PRECISE, CAN_ID_LEAF_BATTERY_STATUS}
                            ELSE IF gauge.role = LOG_ROLE_AMPS
                            THEN {CAN_ID_LEAF_BATTERY_STATUS}
                            ELSE {CAN_ID_LEAF_BATTERY_TEMP})
       IN gauge.phase = "rx" /\ gauge'.phase = "rx" /\ gauge'.lastId \notin handled
          => /\ gauge' = [gauge EXCEPT !.canMessageReceived = TRUE,
                                       !.buf = gauge'.buf,
                                       !.lastId = gauge'.lastId,
                                       !.lastLen = gauge'.lastLen]
             /\ lastTx' = <<>>
             /\ lastLog' = NoLog
             /\ serial' = <<>>
             /\ UNCHANGED <<canBus, canLog, heartbeat, failedSends, now>>]_vars

\* a TEMP gauge showing 25 degrees that has just dispatched a frame with an
\* identifier it does not handle
C30_Witness ==
    /\ gauge.role = LOG_ROLE_TEMP
    /\ gauge.phase = "rx"
    /\ gauge.lastId \in {291, CAN_ID_LEAF_SOC_PRECISE}
    /\ gauge.lastLen = 8
    /\ gauge.canMessageReceived
    /\ gauge.gaugeValue = 2500
    /\ lastTx = <<>>

\* ------------------------------------------------------------------------
\* C23: homing succeeds on a working marker. On a ring of 2048 steps with a
\* marker of width w, 1 <= w < 2048, and the wheel anywhere, calibrateHome
\* returns true; the rising edge is recorded at the tracked position of the
\* marker's first step and the falling edge w steps later, the derived
\* width is w; the tracked position ends at (rising edge + w / 2) mod 2048
\* with the wheel standing inside the marker at that offset; the rising
\* edge is found by the clockwise search, and no edge search makes more
\* than 1.5 revolutions of steps.
C23_HomingSucceeds ==
    [][gauge.phase = "setup" /\ gauge'.phase = "homed"
       /\ wheel.markerWidth >= 1 /\ wheel.markerWidth < STEPS_PER_REVOLUTION
        => LET w == wheel.markerWidth
               start == (wheel.markerStart - wheel.pos + stepper.currentPosition_)
                          % STEPS_PER_REVOLUTION
           IN /\ wheel'.homed
              /\ stepper'.calibrated_
              /\ stepper'.homeStartPos_ = start
              /\ stepper'.homeEndPos_ = (start + w) % STEPS_PER_REVOLUTION
              /\ stepper'.homeMarkerWidth_ = w
              /\ stepper'.currentPosition_ = (start + w \div 2) % STEPS_PER_REVOLUTION
              /\ stepper'.currentPosF_ = stepper'.currentPosition_ * PosScale
              /\ wheel'.pos = (wheel.markerStart + w \div 2) % STEPS_PER_REVOLUTION
              /\ readEndstop(wheel', wheel'.pos)
              /\ Len(wheel'.searches) = 2
              /\ \A i \in DOMAIN wheel'.searches :
                    wheel'.searches[i] <= (STEPS_PER_REVOLUTION * 3) \div 2]_vars

\* homing has succeeded from inside a marker that covers all of the ring
\* but one step: the rising-edge search ran past the gap, the falling-edge
\* search across the whole marker
C23_Witness ==
    /\ gauge.phase = "homed"
    /\ wheel.homed
    /\ wheel.markerWidth = STEPS_PER_REVOLUTION - 1
    /\ stepper.homeMarkerWidth_ = STEPS_PER_REVOLUTION - 1
    /\ wheel.searches[2] = STEPS_PER_REVOLUTION - 1
    /\ readEndstop(wheel, wheel.pos)

\* ------------------------------------------------------------------------
\* C24: homing failure degrades gracefully. With a sensor that never shows
\* a rising edge (no marker, or a sensor that always reads the marker)
\* calibrateHome ends after a clockwise and a counter-clockwise search of
\* 1.5 revolutions each, returns false and leaves the wheel uncalibrated;
\* setup logs STEPPER_HOME_FAIL at warning level and can go on; afterwards
\* a loop iteration does its other work (the heartbeat is sent when due, a
\* gear frame sets the gear servo) and moves neither the stepper object nor
\* the wheel, whatever speed frame arrives.
C24_HomingFailure ==
    /\ [][gauge.phase = "setup" /\ gauge'.phase = "homed"
          /\ wheel.markerWidth \in {0, STEPS_PER_REVOLUTION}
           => /\ wheel'.searches = <<(STEPS_PER_REVOLUTION * 3) \div 2,
                                     (STEPS_PER_REVOLUTION * 3) \div 2>>
              /\ ~wheel'.homed
              /\ ~stepper'.calibrated_
              /\ Len(lastTx') = 1
              /\ lastTx'[1].id = CAN_ID_LOG
              /\ lastTx'[1].data[1] = packRoleLevel(LOG_ROLE_SPEED, LOG_WARN)
              /\ lastTx'[1].data[2] = STEPPER_HOME_FAIL
              /\ lastLog'.level = LOG_WARN
              /\ lastLog'.event = STEPPER_HOME_FAIL]_vars
    /\ [](gauge.phase = "homed" /\ ~wheel.homed => ENABLED SpeedoSetupEnd)
    /\ [][gauge.phase = "loop" /\ gauge'.phase = "loop" /\ ~wheel.homed
           => /\ stepper' = stepper
              /\ ~stepper'.calibrated_
              /\ wheel'.pos = wheel.pos
              /\ wheel'.steps = 0
              /\ (now' - heartbeat.lastBroadcastMs_ >= HEARTBEAT_INTERVAL_MS
                  /\ gauge'.selfTests = gauge.selfTests)
                   => (lastTx' # <<>> /\ lastTx'[1].id = CAN_ID_HEARTBEAT
                       /\ heartbeat'.uptimeCounter_ = heartbeat.uptimeCounter_ + 1)
              /\ (gauge'.canMessageReceived /\ gauge'.lastId = CAN_ID_BODY_GEAR
                  /\ wheel'.op = "update" /\ gauge'.targetAngle_ # gauge.targetAngle_)
                   => gauge'.targetAngle_ = 15 * (GEAR_2 + 1)]_vars

\* a speedometer whose homing failed has sent a heartbeat in its loop and
\* has just dispatched a speed frame
C24_Witness ==
    /\ gauge.phase = "loop"
    /\ ~wheel.homed
    /\ wheel.markerWidth = STEPS_PER_REVOLUTION
    /\ wheel.op = "moveToMPH"
    /\ gauge.lastId = CAN_ID_BODY_SPEED
    /\ heartbeat.uptimeCounter_ >= 1

\* ------------------------------------------------------------------------
\* C26: every transition takes the shortest angular path, also when the
\* needle is retargeted in flight. A moveToMPH that starts a transition
\* starts it at the needle's current position, ends it at the new target
\* position, and travels at most half a revolution.
C26_ShortestTransition ==
    [][gauge.phase = "loop" /\ wheel'.op = "moveToMPH"
       /\ stepper'.moving_ /\ stepper'.transitionStart_ = now'
        => /\ stepper'.startPosF_ = stepper.currentPosF_
           /\ (stepper'.targetPosF_ - stepper'.targetPosition_ * PosScale)
                 % (STEPS_PER_REVOLUTION * PosScale) = 0
           /\ Abs(stepper'.targetPosF_ - stepper'.startPosF_)
                 <= (STEPS_PER_REVOLUTION \div 2) * PosScale]_vars

\* ------------------------------------------------------------------------
\* C25: shortestPath(from, to), for from and to in 0..2047, is a signed
\* step count d with (from + d) mod 2048 = to and |d| <= 1024; from 0 to
\* 2047 it is -1. It is what updateStepperPosition commands: the wheel
\* moves by d and the tracked position becomes to.
C25_ShortestPath ==
    [][wheel.op = "none" /\ wheel'.op = "updateStepperPosition"
        => LET from == stepper.currentPosition_
               to == roundF(stepper.currentPosF_)
               d == wheel'.steps
           IN /\ d = shortestPath(from, to)
              /\ (from + d) % STEPS_PER_REVOLUTION = to
              /\ Abs(d) <= STEPS_PER_REVOLUTION \div 2
              /\ (from = 0 /\ to = STEPS_PER_REVOLUTION - 1) => d = -1
              /\ stepper'.currentPosition_ = to
              /\ wheel'.pos = to]_vars

\* the wheel has gone from 0 to 2047 by one step backwards
C25_Witness ==
    /\ wheel.op = "updateStepperPosition"
    /\ wheel.steps = -1
    /\ wheel.pos = STEPS_PER_REVOLUTION - 1
    /\ stepper.currentPosition_ = STEPS_PER_REVOLUTION - 1

\* C27: a log call with a text of L > 0 characters that goes to the bus
\* sends the LOG frame first, with n = min(ceil(L/7), 7) in byte 7, and
\* then exactly n LOG_TEXT frames with indices 0..n-1 in ascending order,
\* fragment i carrying characters 7i..7i+6 padded with zero bytes
\* (characters past the 49th are dropped); with no text byte 7 is 0 and no
\* LOG_TEXT frame is sent.
C27_LogFragmentation ==
    [][(lastLog' # NoLog /\ lastLog'.level >= canLog.minLevel_
          /\ canAvailable_(canLog, canBus))
       => LET text == lastLog'.text
              L == Len(text)
              c == (L + 6) \div 7
              n == IF c > 7 THEN 7 ELSE c
          IN (/\ Len(lastTx') = n + 1
              /\ lastTx'[1].id = CAN_ID_LOG
              /\ lastTx'[1].data[8] = n
              /\ \A i \in 0..(n - 1) :
                   /\ lastTx'[i + 2].id = CAN_ID_LOG_TEXT
                   /\ lastTx'[i + 2].data =
                        <<i>> \o [k \in 1..7 |-> IF (7 * i) + k <= L
                                                 THEN text[(7 * i) + k] ELSE 0])]_vars

\* C28: a log call whose level is below the configured minimum has no
\* effect: no frame is handed to the transport, nothing is written to the
\* fallback sink and no transport counter changes; a call at or above the
\* minimum is not filtered: it reaches the bus as a LOG frame of its level
\* and event when the bus is available, and the fallback sink otherwise.
C28_LevelFilter ==
    [][lastLog' # NoLog
       => IF lastLog'.level < canLog.minLevel_
          THEN (lastTx' = <<>> /\ serial' = <<>> /\ canBus' = canBus
                  /\ failedSends' = failedSends /\ twaiState' = twaiState)
          ELSE IF canAvailable_(canLog, canBus)
               THEN (/\ serial' = <<>>
                     /\ lastTx' # <<>>
                     /\ lastTx'[1].id = CAN_ID_LOG
                     /\ lastTx'[1].data[1] = packRoleLevel(canLog.role_, lastLog'.level)
                     /\ lastTx'[1].data[2] = lastLog'.event)
               ELSE (lastTx' = <<>> /\ serial' = <<lastLog'>>)]_vars

\* a call with text below a raised minimum level has just been dropped
C28_Witness ==
    /\ pc = "log"
    /\ canLog.minLevel_ = LOG_WARN
    /\ canLog.canBus_ /\ ~canBus.busOff_
    /\ lastLog # NoLog /\ lastLog.level = LOG_INFO /\ Len(lastLog.text) = 14
    /\ lastTx = <<>> /\ serial = <<>>

\* C31: the battery current is the upper 11 bits of bytes 2..3 read as a
\* two's-complement number, times 0.5 A, whatever the five low bits of
\* byte 3 are: the all-ones pattern gives -0.5 A, the sign bit alone
\* -512 A, the largest positive pattern 511.5 A (gaugeValue of an AMPS
\* gauge, in hundredths of an ampere).
C31_SignExtendedCurrent ==
    [][(gauge.role = LOG_ROLE_AMPS /\ gauge.phase = "rx" /\ gauge'.phase = "rx"
          /\ gauge'.lastId = CAN_ID_LEAF_BATTERY_STATUS /\ gauge'.lastLen = 8)
       => LET pattern == (gauge'.buf[3] * 8) + (gauge'.buf[4] \div 32)
              value == IF pattern >= 1024 THEN pattern - 2048 ELSE pattern
          IN (/\ gauge'.gaugeValue = 50 * value
              /\ pattern = 2047 => gauge'.gaugeValue = 0 - 50
              /\ pattern = 1024 => gauge'.gaugeValue = 0 - 51200
              /\ pattern = 1023 => gauge'.gaugeValue = 51150)]_vars

\* the all-ones pattern, low bits set, has been decoded to -0.5 A
C31_Witness ==
    /\ gauge.role = LOG_ROLE_AMPS /\ gauge.phase = "rx"
    /\ gauge.lastId = CAN_ID_LEAF_BATTERY_STATUS
    /\ gauge.buf[3] = 255 /\ gauge.buf[4] = 255
    /\ gauge.gaugeValue = 0 - 50

\* C40: for every byte 0 of a battery temperature frame the decoded
\* temperature is the byte read as a signed 8-bit number minus 40, exactly
\* (gaugeValue of a TEMP gauge, in hundredths of a degree).
C40_TempExact ==
    [][(gauge.role = LOG_ROLE_TEMP /\ gauge.phase = "rx" /\ gauge'.phase = "rx"
          /\ gauge'.lastId = CAN_ID_LEAF_BATTERY_TEMP /\ gauge'.lastLen = 8)
       => LET raw == gauge'.buf[1]
              signed == IF raw >= 128 THEN raw - 256 ELSE raw
          IN gauge'.gaugeValue = 100 * (signed - 40)]_vars

\* C32: the LOG frame decodes to what was encoded: unpackRole and
\* unpackLevel of byte 0 give the role and the level, byte 1 the event
\* code, bytes 2..5 read big-endian the context (as a 32-bit pattern), byte
\* 7 the number of LOG_TEXT frames, for every role 0..6, level 0..4 and
\* fragment count 0..7 and for the contexts 0 and 0xFFFFFFFF.
C32_LogRoundTrip ==
    [][(lastLog' # NoLog /\ lastTx' # <<>> /\ Len(lastLog'.text) <= 49)
       => LET data == lastTx'[1].data
              top == IF data[3] >= 128 THEN data[3] - 256 ELSE data[3]
          IN (/\ lastTx'[1].id = CAN_ID_LOG
              /\ unpackRole(data[1]) = canLog.role_
              /\ unpackLevel(data[1]) = lastLog'.level
              /\ data[2] = lastLog'.event
              /\ (top * 16777216) + (data[4] * 65536) + (data[5] * 256) + data[6]
                   = lastLog'.context
              /\ data[8] = (Len(lastLog'.text) + 6) \div 7)]_vars

\* a GPS logger has sent a LOG_CRITICAL frame with context 0xFFFFFFFF and a
\* text of seven fragments
C32_Witness ==
    /\ canLog.role_ = 6
    /\ lastLog # NoLog /\ lastLog.level = LOG_CRITICAL
    /\ lastLog.context = 0 - 1 /\ lastLog.event = 255
    /\ Len(lastTx) = 8 /\ lastTx[1].ok
    /\ lastTx[1].data = <<100, 255, 255, 255, 255, 255, 0, 7>>

\* C38: a LOG_TEXT frame of a log call is accepted by the controller only
\* if the LOG frame of that call was accepted before it, whichever sends
\* the controller refuses.
C38_TextOnlyAfterHeader ==
    [][lastLog' # NoLog
       => \A i \in DOMAIN lastTx' :
            (lastTx'[i].id = CAN_ID_LOG_TEXT /\ lastTx'[i].ok)
              => \E j \in 1..(i - 1) : lastTx'[j].id = CAN_ID_LOG /\ lastTx'[j].ok]_vars

\* C33: after a step of the target, update() called at a fixed period
\* brings the smoothed angle within 5% of the step of the target after
\* three time constants, and the time this takes does not depend on the
\* period beyond one period: the gap is above 5% of the step up to
\* 2.995 tau after the step and within 5% from 2.996 tau on (ln 20 =
\* 2.9957), for every period up to the 0.5 s at which dt is clamped.
C33_SmootherConverges ==
    pc = "servo"
    => LET s == gauge.servo
           elapsed == now - s.t0
           gap == Abs((s.targetAngle_ * 10 ^ 6) - s.smoothedAngle_)
           tolerance == Abs(s.targetAngle_ - s.from) * 50000
       IN /\ (elapsed * 1000 >= 2996 * s.smoothingTau_) => gap <= tolerance
          /\ (elapsed * 1000 <= 2995 * s.smoothingTau_) => gap > tolerance

\* three time constants after a step from 0 to 180 degrees the needle of a
\* servo updated every 10 ms is within 9 degrees of the target
C33_Witness ==
    /\ pc = "servo"
    /\ gauge.servo.dt = 10 /\ gauge.servo.smoothingTau_ = 1000
    /\ gauge.servo.from = 0 /\ gauge.servo.targetAngle_ = 180
    /\ now - gauge.servo.t0 = 3000
    /\ gauge.servo.smoothedAngle_ >= 171 * 10 ^ 6
    /\ gauge.servo.currentAngle_ = 171

\* C34: the pulse count and the last-pulse time that computeSpeed copies
\* were written by the same invocation of hallISR, under every interleaving
\* of the interrupt with the loop, and every pulse enters the odometer
\* once: between two computeSpeed calls the sum of the pulse differences is
\* the number of hallISR invocations up to the last copy.
C34_SnapshotConsistent ==
    pc \in {"main", "read_count", "read_stamp", "enable", "rest"}
    => /\ pc \in {"enable", "rest"} => eng.isr.snapCountBy = eng.isr.snapStampBy
       /\ pc = "main" => /\ eng.odometerMiles = eng.isr.snapCountBy
                         /\ eng.prevPulseCount = eng.isr.pulses

\* computeSpeed has copied the pair written by the third pulse, the counter
\* having wrapped, and the interrupt served since then
C34_Witness ==
    /\ pc = "rest"
    /\ eng.isr.snapCountBy = 3 /\ eng.isr.snapStampBy = 3
    /\ eng.isr.pulses = U32(1)
    /\ eng.isr.runs = 4

\* C35: on a calibrated wheel, whenever the needle is at rest after an
\* update() call, its step position is within the 2-step tolerance of the
\* position of the speed moveToMPH was last called with.
C35_NeedleSettles ==
    (stepper.calibrated_ /\ wheel.op = "update" /\ ~stepper.moving_ /\ wheel.mph >= 0)
    => LET homeCenter == (stepper.homeStartPos_ + stepper.homeMarkerWidth_ \div 2)
                           % STEPS_PER_REVOLUTION
           target == (homeCenter + 256
                        + 22 * constrain(wheel.mph, MIN_SPEED_MPH, MAX_SPEED_MPH)) % 2048
       IN Abs(shortestPath(stepper.currentPosition_, target)) < 2

\* C36: after a successful calibrateHome the tracked position is the
\* position the motor has been stepped to (the position at calibration plus
\* all steps commanded, modulo 2048) and lies in 0..2047: the tracked
\* position stays as far from the position of the shaft as the tracked
\* start of the home marker is from the marker.
C36_TrackedIsPhysical ==
    (wheel.homed /\ stepper.calibrated_)
    => /\ (stepper.currentPosition_ - wheel.pos + STEPS_PER_REVOLUTION) % STEPS_PER_REVOLUTION
            = (stepper.homeStartPos_ - wheel.markerStart + STEPS_PER_REVOLUTION)
                  % STEPS_PER_REVOLUTION
       /\ stepper.currentPosition_ \in 0..(STEPS_PER_REVOLUTION - 1)

\* C39: when the transition started by moveToMPH(m) has completed on a
\* calibrated wheel, getCurrentMPH() returns m, for m in 0..90; on an
\* uncalibrated wheel it returns 0.
C39_CurrentMphInverse ==
    /\ ~stepper.calibrated_ => getCurrentMPH(stepper) = 0
    /\ (stepper.calibrated_ /\ wheel.op = "update" /\ ~stepper.moving_
          /\ wheel.mph \in 0..90
          /\ stepper.targetPosition_ = stepper.currentPosition_
          /\ stepper.currentPosF_ = stepper.currentPosition_ * PosScale)
       => LET homeCenter == (stepper.homeStartPos_ + stepper.homeMarkerWidth_ \div 2)
                              % STEPS_PER_REVOLUTION
          IN stepper.currentPosition_ = (homeCenter + stepsFromHome(wheel.mph))
                                           % STEPS_PER_REVOLUTION
             => getCurrentMPH(stepper) = wheel.mph


\* C37: on a servo gauge node, while a hazard or turn-signal animation is
\* active (currentAnim is not ANIM_NONE) and the node is not in silence mode,
\* the LED ring shows the animation and not a warning colour, also when the
\* warning was set before the animation started.
C37_AnimationNotOverridden ==
    (gauge.currentAnim # "ANIM_NONE" /\ ~gauge.canSilenceMode)
    => gauge.led.shown # "warning"

====
